---- MODULE Spec2Model ----
(***************************************************************************)
(* The Airbnb listings transform Lambda (lambda_1): the field normalizers, *)
(* the categorizers, the per-row transformation and the handler's driver   *)
(* loop, in its three variants (base, scale, arm64).                       *)
(*                                                                         *)
(* Representation.  A Python str is a sequence of one-character strings;   *)
(* Python's None is the one-element sequence None below, which no str      *)
(* equals.  A Python float is an integer count of 1/Scale units (the       *)
(* input vocabulary has at most FracDigits fractional digits, so parsing   *)
(* is exact); where the binary rounding of a double decides a result       *)
(* (round(x, 2) on a half-cent) the operators below compute the direction  *)
(* of the double's representation error.                                   *)
(***************************************************************************)
EXTENDS Integers, Sequences, FiniteSets, TLC

\* ------------------------------------------------------------------ bounds
MaxRows == 3
MaxInvocations == 2
FracDigits == 3
MaxLen == 3
\* the rows of a file given to the scaling utility, and the copies asked of it
MaxScaleRows == 2
MaxMultiplier == 3

Scale == 10 ^ FracDigits
Cent == Scale \div 100

\* ----------------------------------------------------------------- strings
None == <<"<None>">>

Digits == {"0", "1", "2", "3", "4", "5", "6", "7", "8", "9"}
\* str.isdigit() also holds for digits int() refuses, such as superscript two
SuperDigits == {"^2"}
Whitespace == {" ", "\t", "\n", "\r"}
UpperCase == <<"A", "B", "C", "D", "E", "F", "G", "H", "I", "J", "K", "L", "M",
               "N", "O", "P", "Q", "R", "S", "T", "U", "V", "W", "X", "Y", "Z">>
LowerCase == <<"a", "b", "c", "d", "e", "f", "g", "h", "i", "j", "k", "l", "m",
               "n", "o", "p", "q", "r", "s", "t", "u", "v", "w", "x", "y", "z">>

\* bool(value) is False: `if not value`
Falsy(value) == value = None \/ value = <<>>

\* str(value)
Str(value) == IF value = None THEN <<"N", "o", "n", "e">> ELSE value

lower_char(c) ==
    IF \E i \in 1..26 : UpperCase[i] = c
    THEN LowerCase[CHOOSE i \in 1..26 : UpperCase[i] = c]
    ELSE c

\* str.lower()
lower(s) == [i \in 1..Len(s) |-> lower_char(s[i])]

RECURSIVE lstrip(_)
lstrip(s) ==
    IF s # <<>> /\ Head(s) \in Whitespace THEN lstrip(Tail(s)) ELSE s

RECURSIVE rstrip(_)
rstrip(s) ==
    IF s # <<>> /\ s[Len(s)] \in Whitespace
    THEN rstrip(SubSeq(s, 1, Len(s) - 1))
    ELSE s

\* str.strip()
strip(s) == rstrip(lstrip(s))

\* `sub in s`
Contains(s, sub) ==
    \E i \in 1..(Len(s) - Len(sub) + 1) : SubSeq(s, i, i + Len(sub) - 1) = sub

\* the characters of s that satisfy Keep, in order (re.sub of the others by '')
RECURSIVE Filter(_, _)
Filter(s, keep) ==
    IF s = <<>> THEN <<>>
    ELSE IF Head(s) \in keep THEN <<Head(s)>> \o Filter(Tail(s), keep)
    ELSE Filter(Tail(s), keep)

\* s.replace(c, '')
Remove(s, c) == Filter(s, {s[i] : i \in 1..Len(s)} \ {c})

\* str.isdigit()
isdigit(s) == s # <<>> /\ \A i \in 1..Len(s) : s[i] \in Digits \cup SuperDigits

DigitVal(c) ==
    CASE c = "0" -> 0 [] c = "1" -> 1 [] c = "2" -> 2 [] c = "3" -> 3
      [] c = "4" -> 4 [] c = "5" -> 5 [] c = "6" -> 6 [] c = "7" -> 7
      [] c = "8" -> 8 [] c = "9" -> 9

\* the value of a sequence of decimal digits; 0 for the empty sequence
RECURSIVE NatOf(_)
NatOf(ds) ==
    IF ds = <<>> THEN 0
    ELSE 10 * NatOf(SubSeq(ds, 1, Len(ds) - 1)) + DigitVal(ds[Len(ds)])

\* the value, in 1/Scale units, of the fractional digits ds
RECURSIVE FracOf(_, _)
FracOf(ds, unit) ==
    IF ds = <<>> \/ unit = 0 THEN 0
    ELSE DigitVal(Head(ds)) * unit + FracOf(Tail(ds), unit \div 10)

\* int(s) for a str: [ok |-> parsed, v |-> value]
int(s) ==
    LET t == strip(s)
        neg == t # <<>> /\ Head(t) = "-"
        body == IF t # <<>> /\ Head(t) \in {"-", "+"} THEN Tail(t) ELSE t
        ok == body # <<>> /\ \A i \in 1..Len(body) : body[i] \in Digits
    IN  [ok |-> ok, v |-> IF ~ok THEN 0 ELSE IF neg THEN -NatOf(body) ELSE NatOf(body)]

\* The decimal grammar of float():  ws* [+-]? (D+ [. D*] | . D+) ws*
DecimalOk(body) ==
    /\ Cardinality({i \in 1..Len(body) : body[i] = "."}) <= 1
    /\ \A i \in 1..Len(body) : body[i] \in Digits \cup {"."}
    /\ \E i \in 1..Len(body) : body[i] \in Digits

DotPos(body) ==
    IF \E i \in 1..Len(body) : body[i] = "."
    THEN CHOOSE i \in 1..Len(body) : body[i] = "."
    ELSE Len(body) + 1

\* ds without its leading zeros
RECURSIVE StripZeros(_)
StripZeros(ds) == IF ds # <<>> /\ Head(ds) = "0" THEN StripZeros(Tail(ds)) ELSE ds

\* the integer digits of the unsigned decimal `body`, without leading zeros
IntDigits(body) == StripZeros(SubSeq(body, 1, DotPos(body) - 1))

\* the integer digits a value in 1/Scale units can have in the checker's integers
MaxIntDigits == 9 - FracDigits

\* stands for every value of more than MaxIntDigits integer digits: it is above
\* every limit the program compares a number with
Beyond == 2 * (10 ^ 9)

\* the value in 1/Scale units of the unsigned decimal `body` with its point at dot
DecimalValue(body, dot) ==
    IF Len(IntDigits(body)) > MaxIntDigits THEN Beyond
    ELSE NatOf(SubSeq(body, 1, dot - 1)) * Scale
         + FracOf(SubSeq(body, dot + 1, Len(body)), Scale \div 10)

Unsigned(t) == IF t # <<>> /\ Head(t) \in {"-", "+"} THEN Tail(t) ELSE t

Sign(t) == IF t # <<>> /\ Head(t) = "-" THEN -1 ELSE 1

FloatOfBody(sign, body) ==
    IF DecimalOk(body)
    THEN [ok |-> TRUE, v |-> sign * DecimalValue(body, DotPos(body))]
    ELSE [ok |-> FALSE, v |-> 0]

FloatOfStripped(t) == FloatOfBody(Sign(t), Unsigned(t))

\* float(s) for a str: [ok |-> parsed, v |-> value in 1/Scale units]; ok is FALSE
\* where float() raises ValueError
float(s) == FloatOfStripped(strip(s))

\* ------------------------------------------------------------ float rounding
\* floor(log2(n / den)) for n >= den > 0
RECURSIVE Log2Up(_, _)
Log2Up(n, den) == IF 2 * den <= n THEN 1 + Log2Up(n, 2 * den) ELSE 0

\* floor(log2(n / den)) for 0 < n < den
RECURSIVE Log2Down(_, _)
Log2Down(n, den) == IF n < den THEN Log2Down(2 * n, den) - 1 ELSE 0

FloorLog2(n, den) == IF n >= den THEN Log2Up(n, den) ELSE Log2Down(n, den)

\* (r * 2^e) mod m
RECURSIVE MulPow2Mod(_, _, _)
MulPow2Mod(r, e, m) ==
    IF e <= 0 THEN r % m
    ELSE IF e >= 8 /\ m < 2 ^ 22 THEN MulPow2Mod((256 * r) % m, e - 8, m)
    ELSE MulPow2Mod((2 * r) % m, e - 1, m)

Rho(r) == IF 2 * r < Scale THEN r ELSE r - Scale

Sigma(d, T) ==
    IF 2 * (T % d) < d THEN T % d
    ELSE IF 2 * (T % d) > d THEN (T % d) - d
    ELSE IF T >= d THEN (T % d) - d
    ELSE T % d

TieSignOf(j, rho, sigma) ==
    IF Scale * sigma + rho * (2 ^ j) > 0 THEN -1
    ELSE IF Scale * sigma + rho * (2 ^ j) < 0 THEN 1
    ELSE 0

TieSignRho(d, j, R, rho) ==
    TieSignOf(j, rho, Sigma(d, MulPow2Mod(((R - rho) \div Scale) % (2 * d), j, 2 * d)))

TieSignRem(d, j, R) == TieSignRho(d, j, R, Rho(R % Scale))

TieSignAt(n, d, ep, j) ==
    TieSignRem(d, j, MulPow2Mod(n % (2 * Scale * d), ep, 2 * Scale * d))

\* The sign of  fl(fl(n / Scale) / d) - n / (Scale * d)  for n > 0, d >= 1, where
\* fl rounds to the nearest IEEE double (53-bit mantissa, ties to even): what the
\* double computed by  float(text) / d  is off by, when n / Scale is the decimal
\* the text spells.  With M the mantissa of fl(n / Scale) at exponent ep and N the
\* mantissa of the quotient at exponent ep + j:  R = n * 2^ep mod 2 * Scale * d,
\* rho = n * 2^ep - M * Scale,  sigma = M * 2^j - N * d,  and the sign is that of
\* -(Scale * sigma + rho * 2^j).
TieSign(n, d) ==
    TieSignAt(n, d, 52 - FloorLog2(n, Scale),
              FloorLog2(n, Scale) - FloorLog2(n, Scale * d))

\* a tie rounded away from zero instead of to the even cent
RoundTie_half_up(q, sign) == IF sign < 0 THEN q ELSE q + 1

\* the cent an (almost) half-cent goes to: by the double's error, and to the even
\* cent when the half-cent is exact
RoundTie(q, sign) ==
    IF sign < 0 THEN q
    ELSE IF sign > 0 THEN q + 1
    ELSE IF q % 2 = 0 THEN q ELSE q + 1

\* round(float(text) / d, 2) in cents, for the decimal n / Scale >= 0 and an
\* integer d >= 1: the nearest cent to the double's exact value, and on an exactly
\* representable half-cent the even cent (Python rounds half to even)
Round2(n, d) ==
    IF 2 * (n % (d * Cent)) < d * Cent THEN n \div (d * Cent)
    ELSE IF 2 * (n % (d * Cent)) > d * Cent THEN (n \div (d * Cent)) + 1
    ELSE RoundTie(n \div (d * Cent), TieSign(n, d))

\* the float rounded down instead
Trunc_floor(v) == v \div Scale

\* int(x) of a float: truncation toward zero
Trunc(v) ==
    IF v = Beyond \/ v = -Beyond THEN v
    ELSE IF v >= 0 THEN v \div Scale
    ELSE -((-v) \div Scale)

\* ------------------------------------------------------------ float printing
DigitChars == <<"0", "1", "2", "3", "4", "5", "6", "7", "8", "9">>

\* the decimal digits of n >= 0
RECURSIVE NatToDigits(_)
NatToDigits(n) ==
    IF n < 10 THEN <<DigitChars[n + 1]>>
    ELSE Append(NatToDigits(n \div 10), DigitChars[(n % 10) + 1])

\* ds without its trailing zeros
RECURSIVE RStripZeros(_)
RStripZeros(ds) ==
    IF ds # <<>> /\ ds[Len(ds)] = "0" THEN RStripZeros(SubSeq(ds, 1, Len(ds) - 1)) ELSE ds

\* ds with zeros in front up to n digits
RECURSIVE ZeroPad(_, _)
ZeroPad(ds, n) == IF Len(ds) >= n THEN ds ELSE ZeroPad(<<"0">> \o ds, n)

OrZero(ds) == IF ds = <<>> THEN <<"0">> ELSE ds

\* repr of a float below 1e16 in magnitude: the shortest decimal that reads back
\* as the same double, which for a decimal of at most 15 significant digits is the
\* decimal itself; always with a point
repr_fixed(v) ==
    (IF v < 0 THEN <<"-">> ELSE <<>>)
    \o NatToDigits((IF v < 0 THEN -v ELSE v) \div Scale)
    \o <<".">>
    \o OrZero(RStripZeros(ZeroPad(NatToDigits((IF v < 0 THEN -v ELSE v) % Scale), FracDigits)))

\* repr of a float of 1e16 or more: d[.ddd]e+XX
repr_exponent(digits) ==
    <<Head(digits)>>
    \o (IF RStripZeros(Tail(digits)) = <<>> THEN <<>>
        ELSE <<".">> \o RStripZeros(Tail(digits)))
    \o <<"e", "+">>
    \o ZeroPad(NatToDigits(Len(digits) - 1), 2)

\* str(x) of a float x: v is its value in 1/Scale units and `wide` its integer
\* digits when it has more than MaxIntDigits of them (<<>> otherwise; such a value
\* is a whole number of at most 15 significant digits)
repr_float(v, wide) ==
    IF wide = <<>> THEN repr_fixed(v)
    ELSE IF Len(wide) <= 16 THEN wide \o <<".", "0">>
    ELSE repr_exponent(wide)

\* ------------------------------------------------------------- normalizers
NA == <<"N", "/", "A">>

\* what s[i] becomes: itself, one space where it starts a run of characters of
\* `chars`, nothing where it goes on with one
CollapseAt(s, i, chars) ==
    IF s[i] \notin chars THEN <<s[i]>>
    ELSE IF i = 1 \/ s[i - 1] \notin chars THEN <<" ">>
    ELSE <<>>

\* s[lo..hi] with its runs collapsed, by halves
RECURSIVE CollapseRange(_, _, _, _)
CollapseRange(s, lo, hi, chars) ==
    IF lo > hi THEN <<>>
    ELSE IF lo = hi THEN CollapseAt(s, lo, chars)
    ELSE CollapseRange(s, lo, (lo + hi) \div 2, chars)
         \o CollapseRange(s, ((lo + hi) \div 2) + 1, hi, chars)

\* re.sub(r'[chars]+', ' ', s): every run of characters of `chars` becomes one space
CollapseRuns(s, chars) == CollapseRange(s, 1, Len(s), chars)

Ellipsis == <<".", ".", ".">>

\* the text cut at max_length, the dots added after it
clean_text_cut_at_max(text, max_length) ==
    IF Falsy(text) THEN <<>>
    ELSE LET t == strip(CollapseRuns(CollapseRuns(Str(text), {"\r", "\n", "\t"}), Whitespace))
         IN  IF max_length > 0 /\ Len(t) > max_length
             THEN SubSeq(t, 1, max_length) \o Ellipsis
             ELSE t

clean_text(text, max_length) ==
    IF Falsy(text) THEN <<>>
    ELSE LET t == strip(CollapseRuns(CollapseRuns(Str(text), {"\r", "\n", "\t"}), Whitespace))
         IN  IF max_length > 0 /\ Len(t) > max_length
             THEN SubSeq(t, 1, max_length - 3) \o Ellipsis
             ELSE t

\* `try: return float(...)  except: return 0.0`
ValueOr0(f) == IF f.ok THEN f.v ELSE 0

\* the handler of clean_int returning -1
TruncOr0_minus_1(f) == IF f.ok THEN Trunc(f.v) ELSE -1

\* `try: return int(float(...))  except: return 0`
TruncOr0(f) == IF f.ok THEN Trunc(f.v) ELSE 0

\* `try: return round(float(...), 2)  except: return 0.0`, in 1/Scale units
RoundOr0(f) == IF f.ok THEN Round2(f.v, 1) * Cent ELSE 0

PriceOf(cleaned) == IF cleaned # <<>> THEN RoundOr0(float(cleaned)) ELSE 0

\* the price in 1/Scale units (a whole number of cents)
clean_price(price_str) ==
    IF Falsy(price_str) THEN 0
    ELSE PriceOf(Filter(Str(price_str), Digits \cup {"."}))

\* the integer digits of a parsed text of more than MaxIntDigits of them (the
\* inputs spell such a value without a fractional part)
WideDigits(body) ==
    IF DecimalOk(body) /\ Len(IntDigits(body)) > MaxIntDigits THEN IntDigits(body) ELSE <<>>

\* the digits of clean_price's result where its value is Beyond
clean_price_wide(price_str) ==
    IF Falsy(price_str) THEN <<>>
    ELSE WideDigits(Filter(Str(price_str), Digits \cup {"."}))

clean_float(value) ==
    IF Falsy(value) \/ value = NA THEN 0
    ELSE ValueOr0(float(value))

clean_int(value) ==
    IF Falsy(value) \/ value = NA THEN 0
    ELSE TruncOr0(float(value))

clean_percentage(percent_str) ==
    IF Falsy(percent_str) \/ percent_str = NA THEN 0
    ELSE ValueOr0(float(strip(Remove(Str(percent_str), "%"))))

TrueWords == {<<"t">>, <<"t", "r", "u", "e">>, <<"1">>, <<"y", "e", "s">>}

convert_boolean(value) == IF lower(Str(value)) \in TrueWords THEN 1 ELSE 0

\* s.split(sep): the pieces between the separators, empty ones included
RECURSIVE split(_, _)
split(s, sep) ==
    IF \E i \in 1..Len(s) : s[i] = sep
    THEN <<SubSeq(s, 1, (CHOOSE i \in 1..Len(s) : s[i] = sep /\ \A j \in 1..(i - 1) : s[j] # sep) - 1)>>
         \o split(SubSeq(s, (CHOOSE i \in 1..Len(s) : s[i] = sep /\ \A j \in 1..(i - 1) : s[j] # sep) + 1, Len(s)), sep)
    ELSE <<s>>

AllDigits(f) == \A i \in 1..Len(f) : f[i] \in Digits

\* strptime's %Y: four digits
YearField(f) == Len(f) = 4 /\ AllDigits(f)

\* strptime's %m: 1[0-2] | 0[1-9] | [1-9]
MonthField(f) == Len(f) \in {1, 2} /\ AllDigits(f) /\ NatOf(f) \in 1..12

\* strptime's %d: 3[01] | [12]\d | 0[1-9] | [1-9] | ' '[1-9]
DayField(f) ==
    \/ Len(f) \in {1, 2} /\ AllDigits(f) /\ NatOf(f) \in 1..31
    \/ Len(f) = 2 /\ f[1] = " " /\ f[2] \in Digits \ {"0"}

DayOf(f) == IF f[1] = " " THEN NatOf(Tail(f)) ELSE NatOf(f)

IsLeap(y) == y % 4 = 0 /\ (y % 100 # 0 \/ y % 400 = 0)

DaysIn(y, m) ==
    IF m = 2 THEN (IF IsLeap(y) THEN 29 ELSE 28)
    ELSE IF m \in {4, 6, 9, 11} THEN 30
    ELSE 31

\* datetime(y, m, d) raises ValueError outside the calendar (MINYEAR is 1)
ValidDate(y, m, d) == y >= 1 /\ m \in 1..12 /\ d \in 1..DaysIn(y, m)

NoDate == [ok |-> FALSE, y |-> 0, m |-> 0, d |-> 0]

DateOfFields(yf, mf, df) ==
    IF YearField(yf) /\ MonthField(mf) /\ DayField(df)
       /\ ValidDate(NatOf(yf), NatOf(mf), DayOf(df))
    THEN [ok |-> TRUE, y |-> NatOf(yf), m |-> NatOf(mf), d |-> DayOf(df)]
    ELSE NoDate

\* datetime.strptime(date_str, fmt) for a str: the whole text is three fields
\* between two separators; ok is FALSE where it raises ValueError
strptime_ymd(fields) ==
    IF Len(fields) = 3 THEN DateOfFields(fields[1], fields[2], fields[3]) ELSE NoDate

strptime_mdy(fields) ==
    IF Len(fields) = 3 THEN DateOfFields(fields[3], fields[1], fields[2]) ELSE NoDate

\* dt.strftime('%Y-%m-%d'): the C library's %Y pads the year to four digits on
\* some platforms and prints it as it is on others (glibc)
strftime(dt, pad_year) ==
    (IF pad_year THEN ZeroPad(NatToDigits(dt.y), 4) ELSE NatToDigits(dt.y))
    \o <<"-">> \o ZeroPad(NatToDigits(dt.m), 2)
    \o <<"-">> \o ZeroPad(NatToDigits(dt.d), 2)

\* `for fmt in ['%Y/%m/%d', '%Y-%m-%d', '%m/%d/%Y']`: the first that parses
FirstFormat(date_str, slashed, dashed, pad_year) ==
    IF strptime_ymd(slashed).ok THEN strftime(strptime_ymd(slashed), pad_year)
    ELSE IF strptime_ymd(dashed).ok THEN strftime(strptime_ymd(dashed), pad_year)
    ELSE IF strptime_mdy(slashed).ok THEN strftime(strptime_mdy(slashed), pad_year)
    ELSE date_str

clean_date(date_str, pad_year) ==
    IF Falsy(date_str) THEN <<>>
    ELSE FirstFormat(date_str, split(date_str, "/"), split(date_str, "-"), pad_year)

\* s.strip(chars)
RECURSIVE lstrip_chars(_, _)
lstrip_chars(s, chars) ==
    IF s # <<>> /\ Head(s) \in chars THEN lstrip_chars(Tail(s), chars) ELSE s

RECURSIVE rstrip_chars(_, _)
rstrip_chars(s, chars) ==
    IF s # <<>> /\ s[Len(s)] \in chars
    THEN rstrip_chars(SubSeq(s, 1, Len(s) - 1), chars)
    ELSE s

strip_chars(s, chars) == rstrip_chars(lstrip_chars(s, chars), chars)

\* `items = [item.strip() for item in cleaned.split(',')]`
items_of(cleaned) == [i \in 1..Len(split(cleaned, ",")) |-> strip(split(cleaned, ",")[i])]

CountItems(cleaned) == IF cleaned # <<>> THEN Len(items_of(cleaned)) ELSE 0

clean_amenities(amenities_str) ==
    IF Falsy(amenities_str) THEN 0
    ELSE CountItems(strip_chars(amenities_str, {"{", "}"}))

\* 'private' looked for before 'entire' and 'apt'
simplify_room_type_private_first(room_type) ==
    IF Falsy(room_type) THEN "Other"
    ELSE LET room_lower == lower(room_type)
         IN  IF Contains(room_lower, <<"p", "r", "i", "v", "a", "t", "e">>) THEN "Private"
             ELSE IF Contains(room_lower, <<"e", "n", "t", "i", "r", "e">>)
                     \/ Contains(room_lower, <<"a", "p", "t">>) THEN "Entire"
             ELSE IF Contains(room_lower, <<"s", "h", "a", "r", "e", "d">>) THEN "Shared"
             ELSE "Other"

simplify_room_type_apt(room_type) ==
    IF Falsy(room_type) THEN "Other"
    ELSE LET room_lower == lower(room_type)
         IN  IF Contains(room_lower, <<"e", "n", "t", "i", "r", "e">>)
                \/ Contains(room_lower, <<"a", "p", "t">>) THEN "Entire"
             ELSE IF Contains(room_lower, <<"p", "r", "i", "v", "a", "t", "e">>) THEN "Private"
             ELSE IF Contains(room_lower, <<"s", "h", "a", "r", "e", "d">>) THEN "Shared"
             ELSE "Other"

simplify_room_type_scale(room_type) ==
    IF Falsy(room_type) THEN "Other"
    ELSE LET room_lower == lower(room_type)
         IN  IF Contains(room_lower, <<"e", "n", "t", "i", "r", "e">>) THEN "Entire"
             ELSE IF Contains(room_lower, <<"p", "r", "i", "v", "a", "t", "e">>) THEN "Private"
             ELSE IF Contains(room_lower, <<"s", "h", "a", "r", "e", "d">>) THEN "Shared"
             ELSE "Other"

simplify_room_type(v, room_type) ==
    IF v = "scale" THEN simplify_room_type_scale(room_type)
    ELSE simplify_room_type_apt(room_type)

\* ------------------------------------------------------------ categorizers
\* the limits taken as the last price of the lower category
categorize_price_upper_inclusive(price) ==
    IF price <= 0 THEN "unknown"
    ELSE IF price <= 75 * Scale THEN "budget"
    ELSE IF price <= 150 * Scale THEN "moderate"
    ELSE IF price <= 300 * Scale THEN "expensive"
    ELSE "luxury"

categorize_price(price) ==
    IF price <= 0 THEN "unknown"
    ELSE IF price < 75 * Scale THEN "budget"
    ELSE IF price < 150 * Scale THEN "moderate"
    ELSE IF price < 300 * Scale THEN "expensive"
    ELSE "luxury"

\* the limits taken as the last count of the lower category
categorize_reviews_upper_inclusive(count) ==
    IF count = 0 THEN "no_reviews"
    ELSE IF count <= 5 THEN "few"
    ELSE IF count <= 20 THEN "moderate"
    ELSE IF count <= 50 THEN "many"
    ELSE "very_popular"

categorize_reviews(count) ==
    IF count = 0 THEN "no_reviews"
    ELSE IF count < 5 THEN "few"
    ELSE IF count < 20 THEN "moderate"
    ELSE IF count < 50 THEN "many"
    ELSE "very_popular"

\* the response rate looked at before the flag
categorize_host_rate_first(is_superhost, response_rate) ==
    IF response_rate >= 90 * Scale THEN "responsive"
    ELSE IF is_superhost # 0 THEN "superhost"
    ELSE IF response_rate >= 50 * Scale THEN "moderate"
    ELSE "low_response"

categorize_host(is_superhost, response_rate) ==
    IF is_superhost # 0 THEN "superhost"
    ELSE IF response_rate >= 90 * Scale THEN "responsive"
    ELSE IF response_rate >= 50 * Scale THEN "moderate"
    ELSE "low_response"

\* the limits taken as the last day count of the lower category
categorize_availability_upper_inclusive(days) ==
    IF days = 0 THEN "not_available"
    ELSE IF days <= 30 THEN "rarely_available"
    ELSE IF days <= 180 THEN "occasionally_available"
    ELSE IF days <= 300 THEN "mostly_available"
    ELSE "highly_available"

categorize_availability(days) ==
    IF days = 0 THEN "not_available"
    ELSE IF days < 30 THEN "rarely_available"
    ELSE IF days < 180 THEN "occasionally_available"
    ELSE IF days < 300 THEN "mostly_available"
    ELSE "highly_available"

\* --------------------------------------------------------- record transformer
Variants == {"base", "scale", "arm64"}

\* the raw columns the model follows (of the listing's ~90)
Columns == {"id", "name", "price", "host_id", "city", "room_type",
            "host_response_rate", "host_is_superhost", "host_listings_count",
            "accommodates", "cleaning_fee", "cancellation_policy", "availability_365",
            "number_of_reviews"}

\* row.get(key, default) on a csv.DictReader row: the default when the header has
\* no such column, None when the row is shorter than the header
get(columns, row, key, default) == IF key \in columns THEN row[key] ELSE default

MaxPrice == 10000 * Scale

Max(a, b) == IF a >= b THEN a ELSE b

\* value.strip() raises AttributeError on None
StripRaises(value) == value = None

\* `if not row.get('id', '').strip() and not row.get('name', '').strip(): continue`
\* "raise", "skip" (the row is blank) or "pass"
blank_row_check(columns, row) ==
    LET id == get(columns, row, "id", <<>>)
        name == get(columns, row, "name", <<>>)
    IN  IF StripRaises(id) THEN "raise"
        ELSE IF strip(id) # <<>> THEN "pass"
        ELSE IF StripRaises(name) THEN "raise"
        ELSE IF strip(name) = <<>> THEN "skip"
        ELSE "pass"

\* the price test without its upper limit
invalid_price_uncapped(price) == price <= 0

\* `if price <= 0 or price > 10000: continue`
invalid_price(price) == price <= 0 \/ price > MaxPrice

\* `if not row.get('id', '').strip(): continue`
missing_id_check(columns, row) ==
    LET id == get(columns, row, "id", <<>>)
    IN  IF StripRaises(id) THEN "raise"
        ELSE IF strip(id) = <<>> THEN "skip"
        ELSE "pass"

\* the id taken over as it is in the file
record_id_unstripped(columns, row) == get(columns, row, "id", <<>>)

\* the record's 'id'
record_id(columns, row) == strip(get(columns, row, "id", <<>>))

\* the default of `accommodates` for the record's own field: '0' in the base and
\* arm64 variants, '1' in the scale variant (one local serves field and divisor)
accommodates_default(v) == IF v = "scale" THEN <<"1">> ELSE <<"0">>

\* the divisor guarded against 0 only: price / (accommodates or 1)
price_per_guest_zero_guard(columns, row, price) ==
    LET guests == clean_int(get(columns, row, "accommodates", <<"1">>))
    IN  IF guests = 0 THEN Round2(price, 1) * Cent
        ELSE IF guests < 0 THEN -(Round2(price, -guests) * Cent)
        ELSE Round2(price, guests) * Cent

\* 'price_per_guest': round(price / max(clean_int(row.get('accommodates', '1')), 1), 2)
price_per_guest(columns, row, price) ==
    Round2(price, Max(clean_int(get(columns, row, "accommodates", <<"1">>)), 1)) * Cent

\* 'room_type_simplified': simplify_room_type(row.get('room_type', ''))
room_type_simplified(v, columns, row) ==
    simplify_room_type(v, get(columns, row, "room_type", <<>>))

\* 'review_category'
review_category(columns, row) ==
    categorize_reviews(clean_int(get(columns, row, "number_of_reviews", <<"0">>)))

\* 'host_category'
host_category(columns, row) ==
    categorize_host(convert_boolean(get(columns, row, "host_is_superhost", <<"f">>)),
                    clean_percentage(get(columns, row, "host_response_rate", <<>>)))

\* 'availability_category'
availability_category(columns, row) ==
    categorize_availability(clean_int(get(columns, row, "availability_365", <<"0">>)))

\* the threshold taken inclusive: host_listings_count >= 3
is_professional_host_from_3(columns, row) ==
    IF clean_int(get(columns, row, "host_listings_count", <<"0">>)) >= 3 THEN 1 ELSE 0

\* 'is_professional_host'
is_professional_host(columns, row) ==
    IF clean_int(get(columns, row, "host_listings_count", <<"0">>)) > 3 THEN 1 ELSE 0

\* 'has_cleaning_fee'
has_cleaning_fee(columns, row) ==
    IF clean_price(get(columns, row, "cleaning_fee", <<"0">>)) > 0 THEN 1 ELSE 0

\* building the record raises when a field that is .strip()ped is None
record_raises(columns, row) ==
    \/ StripRaises(get(columns, row, "id", <<>>))
    \/ StripRaises(get(columns, row, "host_id", <<>>))
    \/ StripRaises(get(columns, row, "city", <<"S", "e", "a", "t", "t", "l", "e">>))

\* the dict literal `cleaned_record = {...}`
cleaned_record(v, columns, row, price) ==
    [id |-> record_id(columns, row),
     name |-> clean_text(get(columns, row, "name", <<>>), 200),
     room_type |-> get(columns, row, "room_type", <<"U", "n", "k", "n", "o", "w", "n">>),
     host_id |-> strip(get(columns, row, "host_id", <<>>)),
     host_response_rate |-> clean_percentage(get(columns, row, "host_response_rate", <<>>)),
     host_is_superhost |-> convert_boolean(get(columns, row, "host_is_superhost", <<"f">>)),
     host_listings_count |-> clean_int(get(columns, row, "host_listings_count", <<"0">>)),
     city |-> strip(get(columns, row, "city", <<"S", "e", "a", "t", "t", "l", "e">>)),
     accommodates |-> clean_int(get(columns, row, "accommodates", accommodates_default(v))),
     price |-> price,
     cleaning_fee |-> clean_price(get(columns, row, "cleaning_fee", <<"0">>)),
     cancellation_policy |-> get(columns, row, "cancellation_policy",
                                 <<"f", "l", "e", "x", "i", "b", "l", "e">>),
     availability_365 |-> clean_int(get(columns, row, "availability_365", <<"0">>)),
     number_of_reviews |-> clean_int(get(columns, row, "number_of_reviews", <<"0">>)),
     price_category |-> categorize_price(price),
     review_category |-> review_category(columns, row),
     host_category |-> host_category(columns, row),
     availability_category |-> availability_category(columns, row),
     room_type_simplified |-> room_type_simplified(v, columns, row),
     is_professional_host |-> is_professional_host(columns, row),
     has_cleaning_fee |-> has_cleaning_fee(columns, row),
     price_per_guest |-> price_per_guest(columns, row, price)]

NoRecord == [id |-> <<>>]

\* The body of the loop's try block for one row, in the base and arm64 variants:
\* [tag |-> "accepted" | "rejected" | "error", record |-> the cleaned record]
transform_row_base(v, columns, row) ==
    LET price == clean_price(get(columns, row, "price", <<"0">>))
    IN  IF blank_row_check(columns, row) = "raise" THEN [tag |-> "error", record |-> NoRecord]
        ELSE IF blank_row_check(columns, row) = "skip" THEN [tag |-> "rejected", record |-> NoRecord]
        ELSE IF invalid_price(price) THEN [tag |-> "rejected", record |-> NoRecord]
        ELSE IF missing_id_check(columns, row) = "raise" THEN [tag |-> "error", record |-> NoRecord]
        ELSE IF missing_id_check(columns, row) = "skip" THEN [tag |-> "rejected", record |-> NoRecord]
        ELSE IF record_raises(columns, row) THEN [tag |-> "error", record |-> NoRecord]
        ELSE [tag |-> "accepted", record |-> cleaned_record(v, columns, row, price)]

\* The same in the scale variant: no blank-row test, the price is tested first
transform_row_scale(v, columns, row) ==
    LET price == clean_price(get(columns, row, "price", <<"0">>))
    IN  IF invalid_price(price) THEN [tag |-> "rejected", record |-> NoRecord]
        ELSE IF missing_id_check(columns, row) = "raise" THEN [tag |-> "error", record |-> NoRecord]
        ELSE IF missing_id_check(columns, row) = "skip" THEN [tag |-> "rejected", record |-> NoRecord]
        ELSE IF record_raises(columns, row) THEN [tag |-> "error", record |-> NoRecord]
        ELSE [tag |-> "accepted", record |-> cleaned_record(v, columns, row, price)]

transform_row(v, columns, row) ==
    IF v = "scale" THEN transform_row_scale(v, columns, row)
    ELSE transform_row_base(v, columns, row)

\* ------------------------------------------------------------ the input files
\* a full row of the listing file
BaseRow ==
    [id |-> <<"1", "0">>,
     name |-> <<"L", "o", "f", "t">>,
     price |-> <<"$", "1", ",", "2", "0", "0", ".", "5", "0">>,
     host_id |-> <<"7", "7">>,
     city |-> <<"S", "e", "a", "t", "t", "l", "e">>,
     room_type |-> <<"E", "n", "t", "i", "r", "e", " ", "h", "o", "m", "e", "/", "a", "p", "t">>,
     host_response_rate |-> <<"8", "5", "%">>,
     host_is_superhost |-> <<"f">>,
     host_listings_count |-> <<"5">>,
     accommodates |-> <<"4">>,
     cleaning_fee |-> <<"$", "2", "5", ".", "0", "0">>,
     cancellation_policy |-> <<"m", "o", "d", "e", "r", "a", "t", "e">>,
     availability_365 |-> <<"1", "8", "0">>,
     number_of_reviews |-> <<"1", "2">>]

\* the rows that make up the multi-row input files
Row1 == BaseRow
Row2 == [BaseRow EXCEPT !.id = <<"1", "1">>, !.price = <<"0">>]
Row3 == [BaseRow EXCEPT !.id = <<>>, !.price = <<"5", "0">>]
Row4 == [BaseRow EXCEPT !.id = <<" ", "9", " ">>, !.price = <<"7", "4", ".", "9", "9">>, !.accommodates = <<"0">>]
\* a row shorter than the header: the DictReader fills the missing values with None
Row5 == [BaseRow EXCEPT !.id = <<"1", "2">>, !.price = <<"8", "0">>, !.host_id = None, !.city = None]
Row6 == [BaseRow EXCEPT !.id = <<"a", "b", "c">>, !.price = <<"7", "5">>, !.accommodates = <<"3">>]
Row7 == [BaseRow EXCEPT !.id = <<"0", "9">>, !.price = <<"8", "0">>, !.accommodates = <<"2">>]

\* a listing file of seven rows
ListingFile == <<Row1, Row2, Row3, Row4, Row5, Row6, Row7>>

\* per column, the raw values a one-row file varies it over
FieldValues ==
    [id |-> {<<>>,
                <<" ", " ">>,
                <<" ", "7", " ">>,
                <<"a", "b", "c">>,
                <<"^2">>,
                None},
     name |-> {<<>>,
                  <<" ", "a", "\t", " ", "b", " ">>,
                  None},
     price |-> {<<>>,
                   <<"0">>,
                   <<"5", "0">>,
                   <<"7", "4", ".", "9", "9">>,
                   <<"7", "5">>,
                   <<"1", "0", "0", "0", "0">>,
                   <<"1", "0", "0", "0", "0", ".", "0", "1">>,
                   <<"2", ".", "6", "7", "5">>,
                   <<"0", ".", "0", "0", "1">>,
                   <<"a", "b", "c">>,
                   <<"1", ".", "2", ".", "3">>,
                   <<"-", "5">>,
                   None},
     host_id |-> {<<>>,
                     <<" ", "5", " ">>,
                     None},
     city |-> {<<" ", "K", "e", "n", "t", " ">>,
                  None},
     room_type |-> {<<>>,
                       <<"P", "r", "i", "v", "a", "t", "e", " ", "r", "o", "o", "m">>,
                       <<"S", "h", "a", "r", "e", "d", " ", "r", "o", "o", "m">>,
                       <<"A", "p", "t">>,
                       <<"H", "o", "t", "e", "l">>,
                       None},
     host_response_rate |-> {<<>>,
                                <<"N", "/", "A">>,
                                <<"9", "0", "%">>,
                                <<"4", "9", ".", "9", "%">>,
                                <<" ", "5", "0", " ", "%", " ">>,
                                None},
     host_is_superhost |-> {<<"t">>,
                               <<"T", "R", "U", "E">>,
                               <<>>,
                               None},
     host_listings_count |-> {<<"0">>,
                                 <<"3">>,
                                 <<"3", ".", "9">>,
                                 <<"4">>,
                                 <<"a", "b", "c">>,
                                 None},
     accommodates |-> {<<"0">>,
                          <<>>,
                          <<"-", "2">>,
                          <<"2", ".", "9">>,
                          <<"3">>,
                          <<"2">>,
                          <<"N", "/", "A">>,
                          None},
     cleaning_fee |-> {<<>>,
                          <<"0">>,
                          <<"0", ".", "0", "0", "4">>,
                          None},
     cancellation_policy |-> {<<"s", "t", "r", "i", "c", "t">>,
                                 None},
     availability_365 |-> {<<"0">>,
                              <<"2", "9">>,
                              <<"3", "0">>,
                              <<"3", "6", "5">>,
                              None},
     number_of_reviews |-> {<<"0">>,
                               <<"4">>,
                               <<"5">>,
                               <<"-", "3">>,
                               <<"5", "0">>,
                               None}]

RichRows ==
    UNION {{[BaseRow EXCEPT ![f] = x] : x \in FieldValues[f]} : f \in Columns}

\* rows that end before the header does: the id and the name are None where the
\* header has them after the price
ShortRows ==
    {[BaseRow EXCEPT !.id = None, !.price = <<"0">>],
     [BaseRow EXCEPT !.id = <<>>, !.price = <<"5", "0">>, !.name = None],
     [BaseRow EXCEPT !.id = None, !.name = None, !.price = <<"8", "0">>]}

MinimalColumns == {"id", "price", "accommodates", "host_listings_count"}

ColumnSets == {Columns, MinimalColumns} \cup {Columns \ {f} : f \in Columns}

Increasing(f) == \A a, b \in DOMAIN f : a < b => f[a] < f[b]

Reverse(rows) == [i \in 1..Len(rows) |-> rows[Len(rows) + 1 - i]]

\* the files made of at most n rows of `file`, in the order they have there
Excerpts(file, n) ==
    UNION {{[i \in 1..k |-> file[f[i]]] : f \in {g \in [1..k -> 1..Len(file)] : Increasing(g)}} :
           k \in 0..n}

\* the rows a file with some columns left out of its header is made of
ShortHeaderRows == {BaseRow, Row4, Row6}

\* files in which more rows raise than get a message: rows shorter than the
\* header, with full rows among them
ErrorFiles ==
    {[i \in 1..n |-> IF i \in full THEN Row1 ELSE Row5] :
        n \in {5, 6, 8}, full \in {{}, {2}, {1, 4}}}

\* the csv files the source bucket may hold: the header's columns and the rows
Sources ==
    {[columns |-> Columns, rows |-> rs] :
        rs \in Excerpts(ListingFile, MaxRows) \cup Excerpts(Reverse(ListingFile), MaxRows)}
    \cup {[columns |-> Columns, rows |-> <<r>>] : r \in RichRows \cup ShortRows}
    \cup {[columns |-> c, rows |-> <<r>>] : c \in ColumnSets, r \in ShortHeaderRows}
    \cup {[columns |-> Columns, rows |-> rs] : rs \in ErrorFiles}

\* ------------------------------------------------------------ the handler
VARIABLES
    variant,        \* which of the three handlers is deployed
    source,         \* the object under SOURCE_KEY in the source bucket
    sink,           \* the objects written to the destination bucket, in order
    responses,      \* what the invocations returned, in order
    invocations,    \* the module-level global the Inspector counts in
    clock,          \* the wall clock the timestamps are read from
    pc,             \* the running invocation's position ("idle" when none runs)
    raw_rows,       \* lambda_handler's locals
    idx,
    cleaned_rows,
    error_count,
    metrics,        \* the metrics dict (base) or the Inspector's attributes
    log,            \* the rows whose error message was printed
    call,           \* a helper function applied on its own: the function and its argument
    result,         \* what that application returned
    suspended       \* the frame of a second invocation, while the other one runs

vars == <<variant, source, sink, responses, invocations, clock, pc, raw_rows, idx,
          cleaned_rows, error_count, metrics, log, call, result, suspended>>

\* the handler's state
handler == <<variant, source, sink, responses, invocations, clock, raw_rows, idx,
             cleaned_rows, error_count, metrics, log>>

locals == <<raw_rows, idx, cleaned_rows, error_count, log>>

\* metrics[key] = value on a dict kept as a set of <<key, value>> pairs
Put(m, key, value) == {kv \in m : kv[1] # key} \cup {<<key, value>>}

Has(m, key) == \E kv \in m : kv[1] = key

Value(m, key) == (CHOOSE kv \in m : kv[1] = key)[2]

\* the record put at the front: cleaned_rows.insert(0, cleaned_record)
insert_first(rows, record) == <<record>> \o rows

\* `cleaned_rows.append(cleaned_record)`
append(rows, record) == Append(rows, record)

\* the row handler without its tally: `except Exception: continue`
on_row_error_uncounted(count) == count

\* the row handler `except Exception: error_count += 1 ... continue`
on_row_error(count) == count + 1

\* `if error_count <= 5`: the errors that get a message of their own
MaxLoggedErrors == 5

\* every error printed
log_row_error_unbounded(v, lg, count, i) ==
    IF v = "base" THEN Append(lg, i) ELSE lg

\* `if error_count <= 5: print(...)`, in the base variant only
log_row_error(v, lg, count, i) ==
    IF v = "base" /\ count <= MaxLoggedErrors THEN Append(lg, i) ELSE lg

\* the sort key `int(x['id']) if x['id'].isdigit() else 0`
sort_key(record) == IF isdigit(record.id) THEN int(record.id).v ELSE 0

\* int() raises ValueError on a str that isdigit() accepts and int() does not parse
sort_key_raises(record) == isdigit(record.id) /\ ~int(record.id).ok

\* list.sort(key=...) is stable: a record goes after the records whose key is
\* not greater
RECURSIVE insert_sorted(_, _)
insert_sorted(rows, record) ==
    IF rows = <<>> THEN <<record>>
    ELSE IF sort_key(rows[Len(rows)]) <= sort_key(record) THEN Append(rows, record)
    ELSE Append(insert_sorted(SubSeq(rows, 1, Len(rows) - 1), record), rows[Len(rows)])

RECURSIVE sort(_)
sort(rows) ==
    IF rows = <<>> THEN <<>>
    ELSE insert_sorted(sort(SubSeq(rows, 1, Len(rows) - 1)), rows[Len(rows)])

\* the numbering without `start=1`
assign_sequential_id_from_0(rows) ==
    [i \in 1..Len(rows) |-> rows[i] @@ ("sequential_id" :> (i - 1))]

\* `for i, row in enumerate(cleaned_rows, start=1): row['sequential_id'] = i`
assign_sequential_id(rows) ==
    [i \in 1..Len(rows) |-> rows[i] @@ ("sequential_id" :> i)]

\* what the handler returns: the status code (0 where the Inspector's attributes
\* are the whole response), the error text ("" when none) and the metrics carried
Response(status, error, m) == [statusCode |-> status, error |-> error, metrics |-> m]

\* the error returned without the metrics
ErrorResponse_bare(v, error, m) ==
    IF v = "base" THEN Response(500, error, {})
    ELSE Response(0, error, {<<"error", 1>>})

\* the return of the outer `except Exception as e:`
ErrorResponse(v, error, m) ==
    IF v = "base" THEN Response(500, error, m)
    ELSE Response(0, error, Put(m, "error", 1))

\* the list of a previous invocation, were it kept at module level
kept_rows == cleaned_rows

\* `cleaned_rows = []`
new_rows == <<>>

\* the tally of a previous invocation, were it kept at module level
kept_error_count == error_count

\* `error_count = 0`
new_error_count == 0

\* the locals of one call of lambda_handler, with the object it reads
Frame(p, src, raw, i, rows, errors, m, lg) ==
    [pc |-> p, source |-> src, raw_rows |-> raw, idx |-> i, cleaned_rows |-> rows,
     error_count |-> errors, metrics |-> m, log |-> lg]

\* no second invocation
NoFrame == Frame("idle", [columns |-> {}, rows |-> <<>>], <<>>, 0, <<>>, 0, {}, <<>>)

\* ------------------------------------------------- the helpers on their own
\* the strings of at most n characters of an alphabet
Strings(alphabet, n) == UNION {[1..k -> alphabet] : k \in 0..n}

\* a helper applied to a str (or None), and one applied to a number
TextCall(fn, text) ==
    [fn |-> fn, text |-> text, number |-> 0, flag |-> 0, max_length |-> 0, pad_year |-> FALSE]

NumberCall(fn, number) ==
    [fn |-> fn, text |-> <<>>, number |-> number, flag |-> 0, max_length |-> 0, pad_year |-> FALSE]

NoCall == TextCall("none", <<>>)

\* what a helper returned: a str, or a number (with its digits when it is Beyond)
TextResult(text) == [text |-> text, number |-> 0, wide |-> <<>>, label |-> ""]

NumberResult(number, wide) == [text |-> <<>>, number |-> number, wide |-> wide, label |-> ""]

LabelResult(label) == [text |-> <<>>, number |-> 0, wide |-> <<>>, label |-> label]

PriceTexts ==
    Strings({"0", "5", ".", "$", ",", "a"}, MaxLen)
    \cup FieldValues["price"]
    \cup {<<"$", "1", ",", "2", "0", "0", ".", "5", "0">>,
          <<"0", ".", "0", "0", "5">>,
          <<"1", ".", "0", "0", "5">>,
          <<"9", "9", "9", "9", "9", "9", ".", "9", "9">>,
          <<"1", "2", "3", "4", "5", "6", "7", "8">>,
          <<"1", "0", "0", "0", "0", "0", "0", "0", "0", "0", "0", "0", "0", "0", "0", "0">>,
          <<"1", "0", "0", "0", "0", "0", "0", "0", "0", "0", "0", "0", "0", "0", "0", "0", "0">>,
          <<"1", "2", "5", "0", "0", "0", "0", "0", "0", "0", "0", "0", "0", "0", "0", "0", "0", "0">>}

PriceCalls == {TextCall("clean_price", t) : t \in PriceTexts}

NumberTexts ==
    Strings({"0", "2", "9", ".", "-", " "}, MaxLen)
    \cup {None, NA,
          <<"a", "b", "c">>,
          <<"N", "/", "A", " ">>,
          <<"-", "2", ".", "9">>,
          <<" ", "2", ".", "9", " ">>,
          <<"-", "0", ".", "5">>,
          <<"+", "3">>,
          <<"-", "3">>,
          <<"5", "0">>,
          <<"1", "2", "3", "4", "5", "6", "7", "8">>}

FloatCalls == {TextCall("clean_float", t) : t \in NumberTexts}

IntCalls == {TextCall("clean_int", t) : t \in NumberTexts}

PercentTexts ==
    Strings({"8", "5", "%", " ", ".", "x"}, MaxLen)
    \cup {None, NA,
          <<" ", "N", "/", "A">>,
          <<" ", "5", "0", " ", "%", " ">>,
          <<"4", "9", ".", "9", "%">>,
          <<"-", "5", "%">>,
          <<"1", "0", "0", "%">>}

PercentCalls == {TextCall("clean_percentage", t) : t \in PercentTexts}

BooleanTexts ==
    Strings({"t", "T", "f", "1", "0", "y", "e", "s"}, MaxLen)
    \cup {None,
          <<"t", "r", "u", "e">>,
          <<"T", "R", "U", "E">>,
          <<"T", "r", "u", "e">>,
          <<"f", "a", "l", "s", "e">>,
          <<"Y", "E", "S">>,
          <<" ", "t">>}

BooleanCalls == {TextCall("convert_boolean", t) : t \in BooleanTexts}

\* the texts a date field may hold: three fields in either order, with either
\* separator
DateYears == {<<"2", "0", "2", "0">>, <<"2", "0", "2", "1">>, <<"1", "9", "0", "0">>,
              <<"0", "9", "9", "9">>, <<"0", "0", "0", "0">>, <<"9", "9", "9">>, <<"2", "0">>}

DateMonths == {<<"1">>, <<"0", "1">>, <<"2">>, <<"0", "2">>, <<"1", "2">>, <<"1", "3">>,
               <<"0">>, <<"0", "0", "1">>}

DateDays == {<<"5">>, <<"0", "5">>, <<" ", "5">>, <<"2", "8">>, <<"2", "9">>, <<"3", "0">>,
             <<"3", "1">>, <<"3", "2">>, <<"0">>}

DateTexts ==
    Strings({"2", "0", "/", "-", "1", " "}, MaxLen)
    \cup {y \o <<sep>> \o m \o <<sep>> \o d :
              y \in DateYears, m \in DateMonths, d \in DateDays, sep \in {"/", "-"}}
    \cup {m \o <<sep>> \o d \o <<sep>> \o y :
              y \in DateYears, m \in DateMonths, d \in DateDays, sep \in {"/", "-"}}
    \cup {None,
          <<" ", "2", "0", "2", "0", "-", "0", "1", "-", "0", "5">>,
          <<"2", "0", "2", "0", "-", "0", "1", "-", "0", "5", " ">>,
          <<"2", "0", "2", "0", "0", "1", "0", "5">>,
          <<"2", "0", "2", "0", "/", "0", "1", "-", "0", "5">>,
          <<"2", "0", "2", "0", "/", "1", "/", "5", "/">>}

DateCalls ==
    {[TextCall("clean_date", t) EXCEPT !.pad_year = p] : t \in DateTexts, p \in BOOLEAN}

AmenityTexts ==
    Strings({"{", "}", ",", "a", " "}, MaxLen)
    \cup {None,
          <<"{", "a", ",", ",", "b", "}">>,
          <<"{", "a", ",", " ", "}">>,
          <<"{", "a", ",", "b", "}">>,
          <<"{", "{", "a", "}", "}">>,
          <<"{", "T", "V", ",", "\"", "H", "o", "t", " ", "t", "u", "b", "\"", ",", "W", "i", "f", "i", "}">>}

AmenityCalls == {TextCall("clean_amenities", t) : t \in AmenityTexts}

\* the max_length the handler passes for host_name, for name and street, and for
\* description
HostNameMaxLength == 100
NameMaxLength == 200
DescriptionMaxLength == 1000

MaxLengths == {HostNameMaxLength, NameMaxLength, DescriptionMaxLength}

\* a text of n characters: `ws` at the positions of `gaps`, letters elsewhere
LongText(n, gaps, ws) == [i \in 1..n |-> IF i \in gaps THEN ws ELSE "a"]

\* texts about as long as the limit m, with whitespace where the cut falls
LongTexts(m) ==
    {LongText(n, gaps, ws) :
        n \in {m, m + 1, m + 5},
        gaps \in {{}, {m - 3}, {50, 51, m - 2}, {1, 2, m + 1}},
        ws \in {" ", "\n"}}

TextTexts ==
    Strings({"a", " ", "\t", "\n", "\r"}, MaxLen)
    \cup {None}
    \cup UNION {LongTexts(m) : m \in MaxLengths}

TextCalls ==
    {[TextCall("clean_text", t) EXCEPT !.max_length = m] : t \in TextTexts, m \in MaxLengths}

\* prices around the limits of categorize_price, in 1/Scale units
PriceValues ==
    {k * Cent : k \in -2..2}
    \cup {b * Scale + k * Cent : b \in {75, 150, 300, 10000}, k \in -1..1}
    \cup {-5 * Scale, 42 * Scale, 100 * Scale, 200 * Scale, Beyond}

CategorizePriceCalls == {NumberCall("categorize_price", p) : p \in PriceValues}

\* review counts around the limits of categorize_reviews, and the counts
\* clean_int makes of the raw texts
ReviewCounts == (-5..55) \cup {clean_int(t) : t \in NumberTexts}

CategorizeReviewsCalls == {NumberCall("categorize_reviews", n) : n \in ReviewCounts}

\* day counts around the limits of categorize_availability, and the counts
\* clean_int makes of the raw texts
AvailabilityDays ==
    (-3..32) \cup (177..182) \cup (297..302) \cup {365, 366, 1000}
    \cup {clean_int(t) : t \in NumberTexts \cup FieldValues["availability_365"]}

CategorizeAvailabilityCalls ==
    {NumberCall("categorize_availability", n) : n \in AvailabilityDays}

\* response rates around the limits of categorize_host, in 1/Scale units, and
\* the rates clean_percentage makes of the raw texts
ResponseRates ==
    {b * Scale + k : b \in {0, 50, 90, 100}, k \in -1..1}
    \cup {clean_percentage(t) : t \in PercentTexts \cup FieldValues["host_response_rate"]}

\* the flags convert_boolean returns
SuperhostFlags == {convert_boolean(t) : t \in BooleanTexts}

CategorizeHostCalls ==
    {[NumberCall("categorize_host", rate) EXCEPT !.flag = f] :
        rate \in ResponseRates, f \in SuperhostFlags}

\* room types: the listing's, the same mixed and in other cases, and near misses
RoomTypeTexts ==
    Strings({"a", "p", "t", "A", "P", " "}, MaxLen)
    \cup FieldValues["room_type"]
    \cup {<<"E", "n", "t", "i", "r", "e", " ", "h", "o", "m", "e", "/", "a", "p", "t">>,
          <<"E", "N", "T", "I", "R", "E", " ", "H", "O", "M", "E">>,
          <<"e", "n", "t", "i", "r", "e">>,
          <<"E", "n", "t", "i", "r", " ", "e">>,
          <<"n", "t", "i", "r", "e">>,
          <<"P", "r", "i", "v", "a", "t", "e", " ", "r", "o", "o", "m">>,
          <<"P", "R", "I", "V", "A", "T", "E">>,
          <<"p", "R", "i", "V", "a", "T", "e">>,
          <<"p", "r", "i", "v", "a", "t">>,
          <<"S", "h", "a", "r", "e", "d", " ", "r", "o", "o", "m">>,
          <<"S", "H", "A", "R", "E", "D">>,
          <<"s", "h", "a", "r", "e">>,
          <<"S", "h", "a", "r", "e", "d", " ", "a", "p", "t">>,
          <<"P", "r", "i", "v", "a", "t", "e", " ", "r", "o", "o", "m", " ", "i", "n", " ", "a", "p", "t">>,
          <<"P", "r", "i", "v", "a", "t", "e", " ", "r", "o", "o", "m", " ", "i", "n", " ", "e", "n", "t", "i", "r", "e", " ", "f", "l", "a", "t">>,
          <<"s", "h", "a", "r", "e", "d", " ", "e", "n", "t", "i", "r", "e">>,
          <<"S", "h", "a", "r", "e", "d", " ", "p", "r", "i", "v", "a", "t", "e", " ", "r", "o", "o", "m">>,
          <<"p", "r", "i", "v", "a", "t", "e", " ", "s", "h", "a", "r", "e", "d">>,
          <<"E", "n", "t", "i", "r", "e", " ", "p", "r", "i", "v", "a", "t", "e", " ", "s", "h", "a", "r", "e", "d", " ", "a", "p", "t">>,
          <<"A", "p", "a", "r", "t", "m", "e", "n", "t">>,
          <<"A", "P", "T">>,
          <<"A", "d", "a", "p", "t", "e", "r">>,
          <<"H", "o", "t", "e", "l", " ", "r", "o", "o", "m">>,
          <<"H", "o", "t", "e", "l">>,
          <<" ">>,
          <<"O", "t", "h", "e", "r">>}

SimplifyRoomTypeCalls == {TextCall("simplify_room_type", t) : t \in RoomTypeTexts}

InitHandler ==
    /\ variant \in Variants
    /\ source \in Sources
    /\ pc = "idle"
    /\ call = NoCall
    /\ result = <<>>

\* the helpers the three variants share word for word, applied to their inputs
HelperCalls ==
    PriceCalls \cup FloatCalls \cup IntCalls \cup PercentCalls \cup BooleanCalls
    \cup DateCalls \cup AmenityCalls \cup TextCalls \cup CategorizePriceCalls
    \cup CategorizeReviewsCalls \cup CategorizeAvailabilityCalls \cup CategorizeHostCalls

\* ------------------------------------------------- the csv scaling utility
\* str(n) of an int
str_int(n) == IF n < 0 THEN <<"-">> \o NatToDigits(-n) ELSE NatToDigits(n)

\* s.replace(old, new), old not empty: every occurrence, left to right
RECURSIVE replace(_, _, _)
replace(s, old, new) ==
    IF Len(s) < Len(old) THEN s
    ELSE IF SubSeq(s, 1, Len(old)) = old
         THEN new \o replace(SubSeq(s, Len(old) + 1, Len(s)), old, new)
    ELSE <<Head(s)>> \o replace(Tail(s), old, new)

\* f'/rooms/{id}'
rooms_path(id) == <<"/", "r", "o", "o", "m", "s", "/">> \o id

\* the row has more fields than the header: csv.DictReader keeps them under
\* the key None
Overlong(row) == "rest" \in DOMAIN row

\* the largest `int(row.get('id', 0))`, from 0; a row whose id int() does not
\* take is passed over
max_id(rows) ==
    LET ids == {int(rows[i].id).v : i \in {j \in 1..Len(rows) :
                                            rows[j].id # None /\ int(rows[j].id).ok}}
    IN  CHOOSE m \in ids \cup {0} : \A n \in ids \cup {0} : n <= m

\* the copy of a row: a decimal id is moved by the offset, and with it the
\* path in listing_url; any other row is copied as it is
scaled_row(row, id_offset) ==
    IF row.id = None THEN row
    ELSE LET original_id == strip(row.id)
             new_id == str_int(int(original_id).v + id_offset)
             listing_url == row.listing_url
         IN  IF ~isdigit(original_id) \/ ~int(original_id).ok THEN row
             ELSE IF ~Falsy(listing_url) /\ Contains(listing_url, rooms_path(original_id))
             THEN [row EXCEPT !.id = new_id,
                              !.listing_url = replace(listing_url, rooms_path(original_id),
                                                      rooms_path(new_id))]
             ELSE [row EXCEPT !.id = new_id]

\* scaled_rows: `multiplier` copies of the rows, copy c (from 0) with the
\* offset max_id * c
scaled_rows(rows, multiplier) ==
    [k \in 1..(multiplier * Len(rows)) |->
        scaled_row(rows[((k - 1) % Len(rows)) + 1],
                   max_id(rows) * ((k - 1) \div Len(rows)))]

\* what scale_csv_data leaves: the rows in the output file, the count it
\* returns, and the exception when csv.DictWriter meets an overlong row (the
\* rows before it are in the file, nothing is returned)
RowsResult(rows, number, label) ==
    [text |-> <<>>, number |-> number, wide |-> <<>>, label |-> label, rows |-> rows]

scale_csv_data(rows, multiplier) ==
    LET out == scaled_rows(rows, multiplier)
        bad == {k \in 1..Len(out) : Overlong(out[k])}
    IN  IF bad = {} THEN RowsResult(out, Len(out), "")
        ELSE RowsResult(SubSeq(out, 1, (CHOOSE k \in bad : \A j \in bad : k <= j) - 1),
                        0, "ValueError")

\* a row of a file to scale: its id and its listing_url
ScaleRow(id, listing_url) == [id |-> id, listing_url |-> listing_url]

\* ids that are decimal numbers, plain and with a zero or a blank in front, and
\* ids that are not; a row that ends before the id; a row with a field too many
ScaleRows ==
    {ScaleRow(id, <<>>) : id \in {<<"7">>, <<"1", "2">>, <<"0", "7">>, <<" ", "7">>, <<"0">>,
                                   <<"a", "b", "c">>, <<"^2">>, <<"-", "5">>, <<>>}}
    \cup {ScaleRow(<<"7">>, <<"x">> \o rooms_path(<<"7">>)),
          ScaleRow(<<"0", "7">>, rooms_path(<<"0", "7">>) \o rooms_path(<<"0", "7">>)),
          ScaleRow(<<"1", "2">>, rooms_path(<<"1", "2", "0">>)),
          ScaleRow(None, None),
          ScaleRow(<<"1", "2">>, <<>>) @@ ("rest" :> <<"x">>)}

ScaleSources ==
    {[columns |-> {"id", "listing_url"}, rows |-> rs] :
        rs \in UNION {[1..n -> ScaleRows] : n \in 0..MaxScaleRows}}

ScaleCalls == {NumberCall("scale_csv_data", m) : m \in 0..MaxMultiplier}

\* a helper is about to be applied; no invocation runs
InitCall ==
    /\ pc = "call"
    /\ \/ /\ variant \in Variants
          /\ call \in SimplifyRoomTypeCalls
          /\ source = [columns |-> {}, rows |-> <<>>]
       \/ /\ variant = "base"
          /\ call \in HelperCalls
          /\ source = [columns |-> {}, rows |-> <<>>]
       \/ /\ variant = "base"
          /\ call \in ScaleCalls
          /\ source \in ScaleSources
    /\ result = <<>>

\* nothing has run yet
InitProcess ==
    /\ sink = <<>>
    /\ responses = <<>>
    /\ invocations = 0
    /\ clock = 0
    /\ raw_rows = <<>>
    /\ idx = 0
    /\ cleaned_rows = <<>>
    /\ error_count = 0
    /\ metrics = {}
    /\ log = <<>>

Init ==
    /\ InitProcess
    /\ suspended = NoFrame
    /\ \/ InitHandler
       \/ InitCall

\* lambda_handler is entered: the metrics dict or the Inspector is set up
Invoke ==
    /\ pc = "idle"
    /\ Len(responses) < MaxInvocations
    /\ pc' = "read"
    /\ clock' = clock + 1
    /\ invocations' = IF variant = "base" THEN invocations ELSE invocations + 1
    /\ metrics' = IF variant = "base" THEN {<<"start_time", clock'>>}
                  ELSE {<<"startTime", clock'>>, <<"invocations", invocations'>>}
    /\ raw_rows' = <<>>
    /\ idx' = 0
    /\ cleaned_rows' = new_rows
    /\ error_count' = new_error_count
    /\ log' = <<>>
    /\ UNCHANGED <<call, result, suspended, variant, source, sink, responses>>

\* s3.get_object and csv.DictReader succeed
ReadOk ==
    /\ pc = "read"
    /\ raw_rows' = source.rows
    /\ metrics' = Put(metrics, "raw_count", Len(source.rows))
    /\ cleaned_rows' = new_rows
    /\ error_count' = new_error_count
    /\ idx' = 0
    /\ pc' = "transform"
    /\ UNCHANGED <<call, result, suspended, variant, source, sink, responses, invocations, clock, log>>

\* s3.get_object raises: the outer handler returns the error
ReadFail ==
    /\ pc = "read"
    /\ responses' = Append(responses, ErrorResponse(variant, "read failed", metrics))
    /\ pc' = "idle"
    /\ UNCHANGED <<call, result, suspended, variant, source, sink, invocations, clock, metrics, locals>>

\* one iteration of `for row in raw_rows`
TransformRow ==
    /\ pc = "transform"
    /\ idx < Len(raw_rows)
    /\ LET out == transform_row(variant, source.columns, raw_rows[idx + 1])
       IN  /\ cleaned_rows' = IF out.tag = "accepted"
                              THEN append(cleaned_rows, out.record)
                              ELSE cleaned_rows
           /\ error_count' = IF out.tag = "error"
                             THEN on_row_error(error_count)
                             ELSE error_count
           /\ log' = IF out.tag = "error"
                     THEN log_row_error(variant, log, error_count', idx)
                     ELSE log
    /\ idx' = idx + 1
    /\ UNCHANGED <<call, result, suspended, variant, source, sink, responses, invocations, clock, pc, raw_rows, metrics>>

\* the reject tally while the loop runs: what `raw_count - clean_count` comes to
\* for the rows processed so far
removed_so_far(processed, rows) == processed - Len(rows)

\* the counts recorded after the loop
count_metrics(m, raw, clean, errors) ==
    Put(Put(Put(m, "clean_count", clean), "removed_count", raw - clean), "error_count", errors)

FinishTransform ==
    /\ pc = "transform"
    /\ idx = Len(raw_rows)
    /\ metrics' = count_metrics(metrics, Len(raw_rows), Len(cleaned_rows), error_count)
    /\ pc' = IF cleaned_rows = <<>> THEN "empty"
             ELSE IF variant = "arm64" THEN "sort"
             ELSE "put"
    /\ UNCHANGED <<call, result, suspended, variant, source, sink, responses, invocations, clock, locals>>

\* the error text of the `else:` branch
no_records_error(v) ==
    IF v = "scale" THEN "No valid records" ELSE "No valid records after cleaning"

\* `else:` of `if cleaned_rows:` -- nothing is written
ReturnNoRecords ==
    /\ pc = "empty"
    /\ responses' = Append(responses,
                           IF variant = "base"
                           THEN Response(400, no_records_error(variant), {})
                           ELSE Response(0, no_records_error(variant),
                                         Put(metrics, "error", 1)))
    /\ pc' = "idle"
    /\ UNCHANGED <<call, result, suspended, variant, source, sink, invocations, clock, metrics, locals>>

\* arm64: the accepted rows are sorted by numeric id and numbered
SortRows ==
    /\ pc = "sort"
    /\ \A i \in 1..Len(cleaned_rows) : ~sort_key_raises(cleaned_rows[i])
    /\ cleaned_rows' = assign_sequential_id(sort(cleaned_rows))
    /\ pc' = "put"
    /\ UNCHANGED <<call, result, suspended, variant, source, sink, responses, invocations, clock, raw_rows, idx,
                   error_count, metrics, log>>

\* arm64: the key function raises; the list is left as it was
SortRaises ==
    /\ pc = "sort"
    /\ \E i \in 1..Len(cleaned_rows) : sort_key_raises(cleaned_rows[i])
    /\ responses' = Append(responses, ErrorResponse(variant, "invalid literal for int()", metrics))
    /\ pc' = "idle"
    /\ UNCHANGED <<call, result, suspended, variant, source, sink, invocations, clock, metrics, locals>>

\* metrics['data_quality']: the averages are `sum(...) / len(cleaned_rows)`; the
\* divisor is kept, the quotients are not followed
data_quality(rows) ==
    [averaged_over    |-> Len(rows),
     superhosts_count |-> Cardinality({i \in 1..Len(rows) : rows[i].host_is_superhost = 1})]

\* s3.put_object succeeds and the handler returns its metrics; the base variant
\* signs a download url (a local computation) and adds the quality statistics
PutOk ==
    /\ pc = "put"
    /\ sink' = Append(sink, [key |-> clock, body |-> cleaned_rows])
    /\ metrics' = IF variant = "base"
                  THEN Put(Put(metrics, "output_file", clock),
                           "data_quality", data_quality(cleaned_rows))
                  ELSE Put(metrics, "output_file", clock)
    /\ responses' = Append(responses,
                           Response(IF variant = "base" THEN 200 ELSE 0, "", metrics'))
    /\ pc' = "idle"
    /\ UNCHANGED <<call, result, suspended, variant, source, invocations, clock, locals>>

\* s3.put_object raises: the outer handler returns the error and the metrics
PutFail ==
    /\ pc = "put"
    /\ responses' = Append(responses, ErrorResponse(variant, "write failed", metrics))
    /\ pc' = "idle"
    /\ UNCHANGED <<call, result, suspended, variant, source, sink, invocations, clock, metrics, locals>>

\* the application returns
Return(r) ==
    /\ pc = "call"
    /\ result' = Append(result, r)
    /\ pc' = "return"
    /\ UNCHANGED <<call, suspended, handler>>

CallCleanPrice ==
    /\ call.fn = "clean_price"
    /\ Return(NumberResult(clean_price(call.text), clean_price_wide(call.text)))

CallCleanText ==
    /\ call.fn = "clean_text"
    /\ Return(TextResult(clean_text(call.text, call.max_length)))

CallCleanFloat ==
    /\ call.fn = "clean_float"
    /\ Return(NumberResult(clean_float(call.text), <<>>))

CallCleanInt ==
    /\ call.fn = "clean_int"
    /\ Return(NumberResult(clean_int(call.text), <<>>))

CallCleanPercentage ==
    /\ call.fn = "clean_percentage"
    /\ Return(NumberResult(clean_percentage(call.text), <<>>))

CallConvertBoolean ==
    /\ call.fn = "convert_boolean"
    /\ Return(NumberResult(convert_boolean(call.text), <<>>))

CallCleanDate ==
    /\ call.fn = "clean_date"
    /\ Return(TextResult(clean_date(call.text, call.pad_year)))

CallCleanAmenities ==
    /\ call.fn = "clean_amenities"
    /\ Return(NumberResult(clean_amenities(call.text), <<>>))

CallCategorizePrice ==
    /\ call.fn = "categorize_price"
    /\ Return(LabelResult(categorize_price(call.number)))

CallCategorizeReviews ==
    /\ call.fn = "categorize_reviews"
    /\ Return(LabelResult(categorize_reviews(call.number)))

CallCategorizeAvailability ==
    /\ call.fn = "categorize_availability"
    /\ Return(LabelResult(categorize_availability(call.number)))

CallCategorizeHost ==
    /\ call.fn = "categorize_host"
    /\ Return(LabelResult(categorize_host(call.flag, call.number)))

CallSimplifyRoomType ==
    /\ call.fn = "simplify_room_type"
    /\ Return(LabelResult(simplify_room_type(variant, call.text)))

\* scale_csv_data(input_file, output_file, multiplier) on the file `source`
CallScaleCsvData ==
    /\ call.fn = "scale_csv_data"
    /\ Return(scale_csv_data(source.rows, call.number))

\* the str() of a returned float, or the returned str itself
StrOf(fn, r) ==
    IF fn = "clean_price" THEN repr_float(r.number, r.wide) ELSE r.text

\* the helper is applied again, to what it returned
Reapply ==
    /\ pc = "return"
    /\ Len(result) = 1
    /\ call.fn \in {"clean_price", "clean_text", "clean_date"}
    /\ call' = [call EXCEPT !.text = StrOf(call.fn, result[1])]
    /\ pc' = "call"
    /\ UNCHANGED <<result, suspended, handler>>

Next ==
    \/ CallCleanPrice
    \/ CallCleanText
    \/ CallCleanFloat
    \/ CallCleanInt
    \/ CallCleanPercentage
    \/ CallConvertBoolean
    \/ CallCleanDate
    \/ CallCleanAmenities
    \/ CallCategorizePrice
    \/ CallCategorizeReviews
    \/ CallCategorizeAvailability
    \/ CallCategorizeHost
    \/ CallSimplifyRoomType
    \/ CallScaleCsvData
    \/ Reapply
    \/ Invoke
    \/ ReadOk
    \/ ReadFail
    \/ TransformRow
    \/ FinishTransform
    \/ ReturnNoRecords
    \/ SortRows
    \/ SortRaises
    \/ PutOk
    \/ PutFail

Spec == Init /\ [][Next]_vars

\* ------------------------------------------------- two invocations at once
Min(a, b) == IF a <= b THEN a ELSE b

\* the MaxRows rows of the listing file from row k on
Window(k) == SubSeq(ListingFile, k, Min(k + MaxRows - 1, Len(ListingFile)))

\* the objects two invocations read: rows that are accepted, rejected and raise,
\* a file of rejected rows only, one whose id the sort cannot take
ConcurrentSources ==
    {[columns |-> Columns, rows |-> rs] :
        rs \in {Window(1), Window(MaxRows + 1), <<Row2>>,
                <<[BaseRow EXCEPT !.id = <<"^2">>]>>}}

\* the objects the second invocation reads
SecondSources ==
    {[columns |-> Columns, rows |-> rs] : rs \in {Window(1), Window(MaxRows + 1)}}

\* the process holds two invocations of the handler, each with its own event
\* (the object it reads) and its own locals
InitConcurrent ==
    /\ InitProcess
    /\ variant \in Variants
    /\ source \in ConcurrentSources
    /\ pc = "idle"
    /\ call = NoCall
    /\ result = <<>>
    /\ \E src \in SecondSources : suspended = [NoFrame EXCEPT !.source = src]

\* the interpreter goes over to the other invocation: the locals of the running
\* one are set aside, those of the other taken up; what belongs to the process
\* (the module's global, the clock) and the bucket stay
Switch ==
    /\ suspended' = Frame(pc, source, raw_rows, idx, cleaned_rows, error_count, metrics, log)
    /\ pc' = suspended.pc
    /\ source' = suspended.source
    /\ raw_rows' = suspended.raw_rows
    /\ idx' = suspended.idx
    /\ cleaned_rows' = suspended.cleaned_rows
    /\ error_count' = suspended.error_count
    /\ metrics' = suspended.metrics
    /\ log' = suspended.log
    /\ UNCHANGED <<call, result, variant, sink, responses, invocations, clock>>

NextConcurrent ==
    \/ Switch
    \/ Invoke
    \/ ReadOk
    \/ ReadFail
    \/ TransformRow
    \/ FinishTransform
    \/ ReturnNoRecords
    \/ SortRows
    \/ SortRaises
    \/ PutOk
    \/ PutFail

SpecConcurrent == InitConcurrent /\ [][NextConcurrent]_vars

\* ------------------------------------------------------------ properties
\* the raw id and the parsed price of a row of the file being read
RawId(row) == get(source.columns, row, "id", <<>>)

ParsedPrice(row) == clean_price(get(source.columns, row, "price", <<"0">>))

\* what the transformer makes of the i-th row of the file
Outcome(i) == transform_row(variant, source.columns, raw_rows[i])

\* the last response returned
LastResponse(rs) == rs[Len(rs)]

\* C1: after any prefix of the input rows has been processed, and at the end of
\* the run, every record of the accepted collection (and of every object
\* written) has 0 < price <= 10000 and an id that is not empty and has no
\* whitespace at either end.
ValidRecord(r) ==
    /\ r.price > 0
    /\ r.price <= 10000 * Scale
    /\ r.id # <<>>
    /\ r.id[1] \notin Whitespace
    /\ r.id[Len(r.id)] \notin Whitespace

C1_AcceptedRecordsValid ==
    /\ \A i \in 1..Len(cleaned_rows) : ValidRecord(cleaned_rows[i])
    /\ \A k \in 1..Len(sink) : \A i \in 1..Len(sink[k].body) : ValidRecord(sink[k].body[i])

\* a row whose id is " 9 " in the file has been accepted, with the id "9"
C1_Witness ==
    /\ pc = "transform"
    /\ idx > 0
    /\ raw_rows[idx].id = <<" ", "9", " ">>
    /\ cleaned_rows # <<>>
    /\ cleaned_rows[Len(cleaned_rows)].id = <<"9">>

\* C2: a row whose processing raises nothing is accepted (exactly one record is
\* appended, made of its trimmed id and parsed price) if and only if its
\* trimmed id is not empty and its parsed price p satisfies 0 < p <= 10000;
\* otherwise it is rejected: nothing is appended, the rejected count (the rows
\* processed that are not in the output, reported as removed_count) rises by
\* exactly 1 and the error count is unchanged.
ValidRow(row) ==
    /\ RawId(row) # None
    /\ strip(RawId(row)) # <<>>
    /\ ParsedPrice(row) > 0
    /\ ParsedPrice(row) <= 10000 * Scale

C2_Step ==
    /\ (pc = "transform" /\ idx' = idx + 1 /\ error_count' = error_count) =>
         IF ValidRow(raw_rows[idx + 1])
         THEN /\ Len(cleaned_rows') = Len(cleaned_rows) + 1
              /\ SubSeq(cleaned_rows', 1, Len(cleaned_rows)) = cleaned_rows
              /\ LastResponse(cleaned_rows').id = strip(RawId(raw_rows[idx + 1]))
              /\ LastResponse(cleaned_rows').price = ParsedPrice(raw_rows[idx + 1])
         ELSE /\ cleaned_rows' = cleaned_rows
              /\ idx' - Len(cleaned_rows') = (idx - Len(cleaned_rows)) + 1
    /\ (pc = "transform" /\ pc' # "transform") =>
         Value(metrics', "removed_count") = idx - Len(cleaned_rows)

C2_AcceptIffValid == [][C2_Step]_vars

\* the rows with price "0" and with id "" have been rejected and a third row
\* accepted, without any error
C2_Witness ==
    /\ pc = "transform"
    /\ raw_rows = <<Row2, Row3, Row4>>
    /\ idx = 3
    /\ Len(cleaned_rows) = 1
    /\ error_count = 0

\* C3: an exception raised while transforming a row is caught at the row
\* boundary: the error counter rises by exactly 1, nothing is appended, the loop
\* goes on with the next row and returns nothing; at every point of the loop the
\* error counter is the number of rows that raised and the accepted collection
\* is what the rows processed so far give with the raising rows left out.
RECURSIVE AcceptedOf(_, _, _)
AcceptedOf(v, columns, rows) ==
    IF rows = <<>> THEN <<>>
    ELSE LET out == transform_row(v, columns, Head(rows))
         IN  (IF out.tag = "accepted" THEN <<out.record>> ELSE <<>>)
             \o AcceptedOf(v, columns, Tail(rows))

Raises(row) == transform_row(variant, source.columns, row).tag = "error"

NotRaising(row) == ~Raises(row)

C3_State ==
    (pc \in {"transform", "empty", "sort"} \/ (pc = "put" /\ variant # "arm64")) =>
        /\ error_count = Cardinality({i \in 1..idx : Raises(raw_rows[i])})
        /\ cleaned_rows = AcceptedOf(variant, source.columns,
                                     SelectSeq(SubSeq(raw_rows, 1, idx), NotRaising))

C3_Step ==
    (pc = "transform" /\ idx' = idx + 1 /\ Raises(raw_rows[idx + 1])) =>
        /\ error_count' = error_count + 1
        /\ cleaned_rows' = cleaned_rows
        /\ pc' = "transform"
        /\ responses' = responses
        /\ sink' = sink

C3_RowErrorIsolated == []C3_State /\ [][C3_Step]_vars

\* a row that raised lies between two accepted rows and the loop is at its end
C3_Witness ==
    /\ pc = "transform"
    /\ raw_rows = <<Row4, Row5, Row6>>
    /\ idx = 3
    /\ error_count = 1
    /\ Len(cleaned_rows) = 2
    /\ cleaned_rows[2].id = <<"a", "b", "c">>

\* C4: when the read of the source or the write to the sink fails, the handler
\* returns a result that carries the error and every metric collected before
\* the failure (after a failed write: raw_count, clean_count, removed_count and
\* error_count, with the values of the run); after a failed read the invocation
\* ends without a write to the sink.
CountKeys == {"raw_count", "clean_count", "removed_count", "error_count"}

Returned(rs1, rs2) == Len(rs2) = Len(rs1) + 1 /\ SubSeq(rs2, 1, Len(rs1)) = rs1

C4_Step ==
    /\ (pc = "read" /\ pc' = "idle") =>
         /\ sink' = sink
         /\ Returned(responses, responses')
         /\ LastResponse(responses').error # ""
         /\ metrics \subseteq LastResponse(responses').metrics
    /\ (pc = "put" /\ pc' = "idle" /\ sink' = sink) =>
         /\ Returned(responses, responses')
         /\ LastResponse(responses').error # ""
         /\ metrics \subseteq LastResponse(responses').metrics
         /\ <<"raw_count", Len(raw_rows)>> \in LastResponse(responses').metrics
         /\ <<"clean_count", Len(cleaned_rows)>> \in LastResponse(responses').metrics
         /\ <<"removed_count", Len(raw_rows) - Len(cleaned_rows)>> \in LastResponse(responses').metrics
         /\ <<"error_count", error_count>> \in LastResponse(responses').metrics

C4_FailureReturnsMetrics == [][C4_Step]_vars

\* one invocation failed to read, the next failed to write, nothing was written
C4_Witness ==
    /\ Len(responses) = 2
    /\ responses[1].error = "read failed"
    /\ responses[2].error = "write failed"
    /\ <<"clean_count", 2>> \in responses[2].metrics
    /\ sink = <<>>

\* C5: in the variants without the sort stage the accepted collection is an
\* order-preserving subsequence of the input: its records are the records of
\* accepted rows at strictly increasing input positions, so no row gives more
\* than one record and records come in the order of their rows.
C5_OrderPreserved ==
    variant # "arm64" =>
        \E f \in [1..Len(cleaned_rows) -> 1..idx] :
            /\ Increasing(f)
            /\ \A k \in 1..Len(cleaned_rows) :
                 /\ Outcome(f[k]).tag = "accepted"
                 /\ cleaned_rows[k] = Outcome(f[k]).record

\* two rows with a rejected row between them have been accepted, in their order
C5_Witness ==
    /\ variant = "scale"
    /\ pc = "put"
    /\ raw_rows = <<Row6, Row2, Row1>>
    /\ Len(cleaned_rows) = 2
    /\ cleaned_rows[1].id = <<"a", "b", "c">>
    /\ cleaned_rows[2].id = <<"1", "0">>

\* C6: in the sorting variant, after the post-processing the accepted records
\* are in non-decreasing order of their numeric id key (an id that is not all
\* digits has key 0), the record at position i has sequential_id = i (so the
\* numbers are exactly 1..N), records with equal keys keep their input order,
\* and without sequential_id the records are the records from before the sort,
\* each as often as before; what is written is in that order and so numbered.
IdKey(id) == IF \A k \in 1..Len(id) : id[k] \in Digits THEN NatOf(id) ELSE 0

WithoutSequentialId(r) == [f \in DOMAIN r \ {"sequential_id"} |-> r[f]]

Bijections(n) == {p \in [1..n -> 1..n] : \A a, b \in 1..n : p[a] = p[b] => a = b}

SortedAndNumbered(rows) ==
    /\ \A i \in 1..Len(rows) : rows[i].sequential_id = i
    /\ \A i, j \in 1..Len(rows) : i < j => IdKey(rows[i].id) <= IdKey(rows[j].id)

StablePermutation(before, after) ==
    /\ Len(after) = Len(before)
    /\ \E p \in Bijections(Len(before)) :
         /\ \A i \in 1..Len(after) : WithoutSequentialId(after[i]) = before[p[i]]
         /\ \A i, j \in 1..Len(after) :
              (i < j /\ IdKey(after[i].id) = IdKey(after[j].id)) => p[i] < p[j]

C6_Step ==
    (pc = "sort" /\ pc' = "put") =>
        /\ SortedAndNumbered(cleaned_rows')
        /\ StablePermutation(cleaned_rows, cleaned_rows')

C6_Written ==
    variant = "arm64" => \A k \in 1..Len(sink) : SortedAndNumbered(sink[k].body)

EndToEndInput == <<Row1, Row2, Row3>>

EndToEndDone == raw_rows = EndToEndInput /\ idx = 3 /\ pc # "idle"

EndToEndAccepted ==
    /\ Len(cleaned_rows) = 1
    /\ error_count = 0
    /\ cleaned_rows[1].id = <<"1", "0">>
    /\ cleaned_rows[1].price = 12005 * (Scale \div 10)
    /\ cleaned_rows[1].price_category = "luxury"
    /\ cleaned_rows[1].is_professional_host = 1

C7_EndToEnd ==
    EndToEndDone => EndToEndAccepted /\ cleaned_rows[1].price_per_guest = 30012 * Cent

\* C7 as stated: the same with price_per_guest = 300.13
C7_AsStated ==
    EndToEndDone => EndToEndAccepted /\ cleaned_rows[1].price_per_guest = 30013 * Cent

\* the three rows have been processed and the record is about to be written
C7_Witness ==
    /\ EndToEndDone
    /\ variant = "base"
    /\ pc = "put"
    /\ cleaned_rows[1].price_per_guest = 30012 * Cent
    /\ <<"removed_count", 2>> \in metrics

\* C8: two runs of the same variant on the same file give the same sequence of
\* records (what is written is the same object body every time) and the same
\* raw, clean, removed and error counts; the output name and the start time
\* differ from run to run.
C8_Deterministic ==
    /\ \A i, j \in 1..Len(sink) : sink[i].body = sink[j].body
    /\ (pc = "put" /\ sink # <<>>) => cleaned_rows = sink[1].body
    /\ \A i, j \in 1..Len(responses) :
         \A k \in CountKeys :
            (Has(responses[i].metrics, k) /\ Has(responses[j].metrics, k)) =>
                Value(responses[i].metrics, k) = Value(responses[j].metrics, k)

\* two invocations have each written the same two or more records under
\* different names
C8_Witness ==
    /\ Len(sink) = 2
    /\ Len(sink[1].body) >= 2
    /\ sink[1].key # sink[2].key
    /\ Len(responses) = 2
    /\ <<"clean_count", Len(sink[1].body)>> \in responses[2].metrics

\* C9: in every accepted record price_per_guest =
\* round(price / max(accommodates, 1), 2) with the record's own accommodates
\* field; when that field is 0 or negative (also when the column is absent) the
\* divisor is 1 and price_per_guest = round(price, 2), and the row is accepted
\* rather than lost to a division by zero.
PricePerGuestRule(r) ==
    /\ r.price_per_guest = Round2(r.price, Max(r.accommodates, 1)) * Cent
    /\ r.accommodates <= 0 => r.price_per_guest = Round2(r.price, 1) * Cent

C9_PricePerGuest ==
    /\ \A i \in 1..Len(cleaned_rows) : PricePerGuestRule(cleaned_rows[i])
    /\ \A i \in 1..idx :
         (ValidRow(raw_rows[i]) /\ clean_int(get(source.columns, raw_rows[i], "accommodates", <<"0">>)) <= 0)
             => ~Raises(raw_rows[i])

\* a row with accommodates "0" has been accepted with price_per_guest = price
C9_Witness ==
    /\ pc = "transform"
    /\ idx > 0
    /\ raw_rows[idx].accommodates = <<"0">>
    /\ "accommodates" \in source.columns
    /\ cleaned_rows # <<>>
    /\ cleaned_rows[Len(cleaned_rows)].accommodates = 0
    /\ cleaned_rows[Len(cleaned_rows)].price_per_guest = 7499 * Cent

\* C10: in every accepted record each derived field is the rule applied to the
\* record's own output fields, also when the raw column is absent:
\* price_category, review_category, host_category, availability_category and
\* room_type_simplified are the buckets of price, number_of_reviews,
\* (host_is_superhost, host_response_rate), availability_365 and room_type;
\* is_professional_host = 1 iff host_listings_count > 3; has_cleaning_fee = 1
\* iff cleaning_fee > 0.
DerivedFromOwnFields(v, r) ==
    /\ r.price_category = categorize_price(r.price)
    /\ r.review_category = categorize_reviews(r.number_of_reviews)
    /\ r.host_category = categorize_host(r.host_is_superhost, r.host_response_rate)
    /\ r.availability_category = categorize_availability(r.availability_365)
    /\ r.room_type_simplified = simplify_room_type(v, r.room_type)
    /\ r.is_professional_host = (IF r.host_listings_count > 3 THEN 1 ELSE 0)
    /\ r.has_cleaning_fee = (IF r.cleaning_fee > 0 THEN 1 ELSE 0)

C10_DerivedFields ==
    \A i \in 1..Len(cleaned_rows) : DerivedFromOwnFields(variant, cleaned_rows[i])

\* a file without the room_type column has given a record with room_type
\* "Unknown" and room_type_simplified "Other"
C10_Witness ==
    /\ pc = "put"
    /\ "room_type" \notin source.columns
    /\ Len(cleaned_rows) = 1
    /\ cleaned_rows[1].room_type = <<"U", "n", "k", "n", "o", "w", "n">>
    /\ cleaned_rows[1].room_type_simplified = "Other"
    /\ cleaned_rows[1].is_professional_host = 1
\* ------------------------------------------------- absent columns
\* what a field of the record is when its raw column is absent
FieldDefaults(v) ==
    [name |-> <<>>,
     room_type |-> <<"U", "n", "k", "n", "o", "w", "n">>,
     host_id |-> <<>>,
     host_response_rate |-> 0,
     host_is_superhost |-> 0,
     host_listings_count |-> 0,
     city |-> <<"S", "e", "a", "t", "t", "l", "e">>,
     accommodates |-> IF v = "scale" THEN 1 ELSE 0,
     cleaning_fee |-> 0,
     cancellation_policy |-> <<"f", "l", "e", "x", "i", "b", "l", "e">>,
     availability_365 |-> 0,
     number_of_reviews |-> 0]

DefaultedColumns == DOMAIN FieldDefaults("base")

\* the header has no such column
AbsentFromHeader(c, row) == c \notin source.columns

\* the header has no such column, or the row ends before it (the reader then
\* holds None for it)
AbsentFromRow(c, row) == c \notin source.columns \/ row[c] = None

\* a row that passes validation and lacks columns gives a record, no error, and
\* the default in every field whose column it lacks
DefaultsTaken(Absent(_, _)) ==
    (/\ pc = "transform"
     /\ idx' = idx + 1
     /\ ValidRow(raw_rows[idx + 1])
     /\ \E c \in DefaultedColumns : Absent(c, raw_rows[idx + 1]))
    => /\ error_count' = error_count
       /\ Len(cleaned_rows') = Len(cleaned_rows) + 1
       /\ \A c \in DefaultedColumns :
             Absent(c, raw_rows[idx + 1])
             => cleaned_rows'[Len(cleaned_rows')][c] = FieldDefaults(variant)[c]

\* C12: when a raw column is absent from a row that passes validation, the row
\* gives a record whose field is the default (room_type "Unknown", city
\* "Seattle", cancellation_policy "flexible", the other fields theirs), and the
\* row is not counted as an error.
C12_AbsentColumnDefaults == [][DefaultsTaken(AbsentFromRow)]_vars

\* the same for the columns the header lacks
C12_HeaderColumnDefaults == [][DefaultsTaken(AbsentFromHeader)]_vars

\* a row of a file without the city column has been accepted
C12_Witness ==
    /\ pc = "transform"
    /\ idx = 1
    /\ "city" \notin source.columns
    /\ Len(cleaned_rows) = 1
    /\ cleaned_rows[1].city = <<"S", "e", "a", "t", "t", "l", "e">>

\* ------------------------------------------------- the helpers' properties
\* a helper has returned; what it returned last
Applied == pc = "return"

Last == result[Len(result)]

\* the text the helper hands to float() raises there, or is the "N/A" it tests for
Unparseable(fn, text) ==
    CASE fn = "clean_price" -> ~float(Filter(Str(text), Digits \cup {"."})).ok
      [] fn = "clean_percentage" -> text = NA \/ ~float(strip(Remove(Str(text), "%"))).ok
      [] OTHER -> text = NA \/ ~float(text).ok

\* no format of clean_date parses the text
NoFormatParses(text) ==
    /\ ~strptime_ymd(split(text, "/")).ok
    /\ ~strptime_ymd(split(text, "-")).ok
    /\ ~strptime_mdy(split(text, "/")).ok

NumericHelpers == {"clean_price", "clean_float", "clean_int", "clean_percentage"}

\* C11: every field normalizer, applied to a str, to the empty str or to None,
\* returns a value (what float() or strptime raise is caught inside it), and the
\* value is its default where the input has nothing to parse: 0 from the numeric
\* helpers, from convert_boolean and from clean_amenities, '' from clean_text and
\* clean_date on an empty input or None, and the input itself from clean_date on
\* a text no format parses.
C11_TotalWithDefaults ==
    /\ Applied =>
        /\ call.fn \in NumericHelpers /\ (Falsy(call.text) \/ Unparseable(call.fn, call.text))
              => Last.number = 0
        /\ call.fn = "convert_boolean"
              => /\ Last.number \in {0, 1}
                 /\ lower(Str(call.text)) \notin TrueWords => Last.number = 0
        /\ call.fn = "clean_amenities" /\ Falsy(call.text) => Last.number = 0
        /\ call.fn = "clean_text" /\ Falsy(call.text) => Last.text = <<>>
        /\ call.fn = "clean_date" /\ Falsy(call.text) => Last.text = <<>>
        /\ call.fn = "clean_date" /\ ~Falsy(call.text) /\ NoFormatParses(call.text)
              => Last.text = call.text

C11_Witness ==
    /\ Applied
    /\ call.fn = "clean_int"
    /\ call.text = <<"a", "b", "c">>
    /\ Last.number = 0

\* what clean_price promises of one application, and of the second application
\* to the str of what the first returned
PriceContract ==
    /\ Last.number >= 0
    /\ Last.number % Cent = 0
    /\ (Falsy(call.text) \/ Unparseable("clean_price", call.text)) => Last.number = 0

\* C13: clean_price returns a non-negative number rounded to two fractional
\* digits, 0.0 for an empty or unparseable input, and applied to the string form
\* of what it returned it returns the same number again.
C13_PriceIdempotent ==
    (Applied /\ call.fn = "clean_price") =>
        /\ PriceContract
        /\ Len(result) = 2 => result[2] = result[1]

\* the same for the prices below 1e16, which str() prints without an exponent
C13_BelowExponent ==
    (Applied /\ call.fn = "clean_price") =>
        /\ PriceContract
        /\ (Len(result) = 2 /\ Len(result[1].wide) <= 16) => result[2] = result[1]

\* the second application, to the "1200.5" that 1200.5 prints as, has returned
\* 1200.5 again
C13_Witness ==
    /\ Applied
    /\ call.fn = "clean_price"
    /\ call.text = <<"1", "2", "0", "0", ".", "5">>
    /\ Len(result) = 2
    /\ result[1].number = 1200 * Scale + 50 * Cent
    /\ result[2] = result[1]

\* n is the whole number next to v / Scale on the side of zero
TruncatedTowardZero(n, v) ==
    IF v = Beyond \/ v = -Beyond THEN n = v
    ELSE IF v >= 0 THEN n >= 0 /\ n * Scale <= v /\ v < (n + 1) * Scale
    ELSE n <= 0 /\ (n - 1) * Scale < v /\ v <= n * Scale

\* C14: clean_int returns 0 for '', None, "N/A" and a text float() does not
\* parse, and otherwise the parsed float truncated toward zero ("2.0" and "2.9"
\* give 2, "-2.9" gives -2); clean_float returns 0.0 for the same inputs and
\* otherwise the parsed float.
C14_IntAndFloat ==
    (Applied /\ call.fn \in {"clean_int", "clean_float"}) =>
        IF Falsy(call.text) \/ call.text = NA \/ ~float(call.text).ok
        THEN Last.number = 0
        ELSE /\ call.fn = "clean_float" => Last.number = float(call.text).v
             /\ call.fn = "clean_int" =>
                   /\ TruncatedTowardZero(Last.number, float(call.text).v)
                   /\ call.text = <<"2", ".", "0">> => Last.number = 2
                   /\ call.text = <<"2", ".", "9">> => Last.number = 2
                   /\ call.text = <<"-", "2", ".", "9">> => Last.number = -2

\* clean_int("-2.9") has returned -2
C14_Witness ==
    /\ Applied
    /\ call.fn = "clean_int"
    /\ call.text = <<"-", "2", ".", "9">>
    /\ Last.number = -2

\* t without the '%' it ends with, if it ends with one
WithoutTrailingPercent(t) ==
    IF t # <<>> /\ t[Len(t)] = "%" THEN SubSeq(t, 1, Len(t) - 1) ELSE t

\* the number the text spells once the whitespace around it and a trailing '%'
\* are taken off; 0 when what is left is not a number
StatedPercentage(text) ==
    ValueOr0(float(strip(WithoutTrailingPercent(strip(Str(text))))))

\* C15: clean_percentage takes a trailing '%' and the surrounding whitespace off
\* the text and parses the rest ("85%" gives 85.0); '', None and "N/A" give 0.0,
\* and so does a text whose rest is not a number.
C15_TrailingPercent ==
    (Applied /\ call.fn = "clean_percentage") =>
        /\ (Falsy(call.text) \/ call.text = NA) => Last.number = 0
        /\ ~(Falsy(call.text) \/ call.text = NA) => Last.number = StatedPercentage(call.text)
        /\ call.text = <<"8", "5", "%">> => Last.number = 85 * Scale

\* the same for the texts that have no '%' before their last character
C15_NoInnerPercent ==
    (Applied /\ call.fn = "clean_percentage"
     /\ ~Falsy(call.text)
     /\ "%" \notin {strip(call.text)[i] : i \in 1..(Len(strip(call.text)) - 1)}) =>
        /\ call.text = NA => Last.number = 0
        /\ call.text # NA => Last.number = StatedPercentage(call.text)
        /\ call.text = <<"8", "5", "%">> => Last.number = 85 * Scale

\* clean_percentage("85%") has returned 85.0
C15_Witness ==
    /\ Applied
    /\ call.fn = "clean_percentage"
    /\ call.text = <<"8", "5", "%">>
    /\ Last.number = 85 * Scale

\* the date the first format that parses reads in the text
FirstParsed(text) ==
    IF strptime_ymd(split(text, "/")).ok THEN strptime_ymd(split(text, "/"))
    ELSE IF strptime_ymd(split(text, "-")).ok THEN strptime_ymd(split(text, "-"))
    ELSE strptime_mdy(split(text, "/"))

\* t is YYYY-MM-DD: four, two and two digits between two dashes
CanonicalForm(t) ==
    /\ Len(t) = 10
    /\ t[5] = "-"
    /\ t[8] = "-"
    /\ \A i \in {1, 2, 3, 4, 6, 7, 9, 10} : t[i] \in Digits

DateContract(years) ==
    (Applied /\ call.fn = "clean_date" /\ ~Falsy(call.text)) =>
        /\ (FirstParsed(call.text).ok /\ FirstParsed(call.text).y \in years) =>
              /\ CanonicalForm(Last.text)
              /\ strptime_ymd(split(Last.text, "-")) = FirstParsed(call.text)
        /\ ~FirstParsed(call.text).ok => Last.text = call.text
        /\ Len(result) = 2 => result[2] = result[1]

\* C16: clean_date tries YYYY/MM/DD, YYYY-MM-DD and MM/DD/YYYY in this order and
\* returns the date of the first that parses in the form YYYY-MM-DD; a text none
\* of them parses is returned unchanged; applied to what it returned, it returns
\* the same text.
C16_CanonicalDate == DateContract(0..9999)

\* the same for the years of four digits
C16_FromYear1000 == DateContract(1000..9999)

\* the second application, to "2020-02-29", has returned what the first returned
C16_Witness ==
    /\ Applied
    /\ call.fn = "clean_date"
    /\ call.text = <<"2", "0", "2", "0", "-", "0", "2", "-", "2", "9">>
    /\ Len(result) = 2
    /\ result[1] = result[2]

\* the text inside the pair of braces that encloses t, if one does
WithoutBracePair(t) ==
    IF Len(t) >= 2 /\ t[1] = "{" /\ t[Len(t)] = "}" THEN SubSeq(t, 2, Len(t) - 1) ELSE t

\* the number of items between the commas that are not empty once trimmed
NonEmptyItems(inner) ==
    Cardinality({i \in 1..Len(split(inner, ",")) : strip(split(inner, ",")[i]) # <<>>})

\* C17: clean_amenities takes one enclosing pair of braces off the text, splits
\* the rest on commas, trims the items and returns how many of them are not
\* empty (the empty items of "{a,,b}" and "{a, }" are not counted); '' and "{}"
\* give 0.
C17_NonEmptyItems ==
    (Applied /\ call.fn = "clean_amenities") =>
        /\ Falsy(call.text) => Last.number = 0
        /\ ~Falsy(call.text) => Last.number = NonEmptyItems(WithoutBracePair(call.text))

\* the same for the texts that are one pair of braces around items none of which
\* is empty or holds a brace
C17_WellFormedSets ==
    (Applied /\ call.fn = "clean_amenities"
     /\ ~Falsy(call.text)
     /\ WithoutBracePair(call.text) # call.text
     /\ \A i \in 1..Len(WithoutBracePair(call.text)) :
           WithoutBracePair(call.text)[i] \notin {"{", "}"}
     /\ NonEmptyItems(WithoutBracePair(call.text)) = Len(split(WithoutBracePair(call.text), ","))) =>
        Last.number = NonEmptyItems(WithoutBracePair(call.text))

\* clean_amenities('{TV,"Hot tub",Wifi}') has returned 3
C17_Witness ==
    /\ Applied
    /\ call.fn = "clean_amenities"
    /\ Len(call.text) = 19
    /\ Last.number = 3

\* C18: for every text and every maximum length m the handler uses (100, 200,
\* 1000), what clean_text returns has no carriage return, line feed or tab, no
\* two whitespace characters in a row, no whitespace at either end and at most m
\* characters; when the cleaned text (what clean_text returns without a maximum)
\* has more than m characters, the result is its first m - 3 characters and
\* "..."; and clean_text applied to what it returned returns the same.
C18_CleanText ==
    (Applied /\ call.fn = "clean_text") =>
        /\ \A i \in 1..Len(Last.text) : Last.text[i] \notin {"\r", "\n", "\t"}
        /\ \A i \in 1..(Len(Last.text) - 1) :
              ~(Last.text[i] \in Whitespace /\ Last.text[i + 1] \in Whitespace)
        /\ Last.text # <<>> =>
              Last.text[1] \notin Whitespace /\ Last.text[Len(Last.text)] \notin Whitespace
        /\ Len(Last.text) <= call.max_length
        /\ IF Len(clean_text(call.text, 0)) > call.max_length
           THEN Last.text = SubSeq(clean_text(call.text, 0), 1, call.max_length - 3) \o Ellipsis
           ELSE Last.text = clean_text(call.text, 0)
        /\ Len(result) = 2 => result[2] = result[1]

\* a text of 1005 characters has been cut to 1000 for the description, and the
\* second application has left it as it was
C18_Witness ==
    /\ Applied
    /\ call.fn = "clean_text"
    /\ call.max_length = DescriptionMaxLength
    /\ Len(result) = 2
    /\ Len(result[1].text) = DescriptionMaxLength
    /\ SubSeq(result[1].text, DescriptionMaxLength - 3, DescriptionMaxLength)
         = <<" ">> \o Ellipsis
    /\ result[2] = result[1]

\* the label the stated limits give a price p (in 1/Scale units)
StatedPriceCategory(p) ==
    CASE p <= 0 -> "unknown"
      [] 0 < p /\ p < 75 * Scale -> "budget"
      [] 75 * Scale <= p /\ p < 150 * Scale -> "moderate"
      [] 150 * Scale <= p /\ p < 300 * Scale -> "expensive"
      [] p >= 300 * Scale -> "luxury"

\* C19: categorize_price gives every price one label, each limit belonging to
\* the category above it: unknown for price <= 0, budget below 75, moderate from
\* 75 to below 150, expensive from 150 to below 300, luxury from 300 (74.99 is
\* budget, 75 moderate, 10000 luxury); and no accepted record, in the list or in
\* an object written, has the price category unknown.
C19_PriceCategories ==
    /\ (Applied /\ call.fn = "categorize_price") =>
          /\ Last.label = StatedPriceCategory(call.number)
          /\ call.number = 74 * Scale + 99 * Cent => Last.label = "budget"
          /\ call.number = 75 * Scale => Last.label = "moderate"
          /\ call.number = 10000 * Scale => Last.label = "luxury"
    /\ \A i \in 1..Len(cleaned_rows) : cleaned_rows[i].price_category # "unknown"
    /\ \A k \in 1..Len(sink) : \A i \in 1..Len(sink[k].body) :
          sink[k].body[i].price_category # "unknown"

\* categorize_price(75) has returned moderate
C19_Witness ==
    /\ Applied
    /\ call.fn = "categorize_price"
    /\ call.number = 75 * Scale
    /\ Last.label = "moderate"

\* the buckets of the review counts
ReviewBuckets ==
    [no_reviews |-> {0},
     few |-> 1..4,
     moderate |-> 5..19,
     many |-> 20..49,
     very_popular |-> {n \in ReviewCounts : n >= 50}]

\* C20: categorize_reviews gives every count one label: no_reviews for 0, few
\* for 1..4, moderate for 5..19, many for 20..49, very_popular from 50; a count
\* is in one bucket only; and a count clean_int makes of a raw text gets the
\* label the limits give it, a negative one ("-3") the label of the counts below
\* 5, few.
C20_ReviewCategories ==
    (Applied /\ call.fn = "categorize_reviews") =>
        /\ call.number >= 0 =>
              /\ Cardinality({b \in DOMAIN ReviewBuckets : call.number \in ReviewBuckets[b]}) = 1
              /\ call.number \in ReviewBuckets[Last.label]
        /\ call.number < 0 => Last.label = "few"

\* categorize_reviews(-3) has returned few
C20_Witness ==
    /\ Applied
    /\ call.fn = "categorize_reviews"
    /\ call.number = -3
    /\ Last.label = "few"

\* the buckets of the day counts
AvailabilityBuckets ==
    [not_available |-> {0},
     rarely_available |-> 1..29,
     occasionally_available |-> 30..179,
     mostly_available |-> 180..299,
     highly_available |-> {n \in AvailabilityDays : n >= 300}]

\* C21: categorize_availability gives every availability_365 value one label:
\* not_available for 0 days, rarely_available for 1..29, occasionally_available
\* for 30..179, mostly_available for 180..299, highly_available from 300; a day
\* count is in one bucket only, and 30, 180 and 300 each fall in the higher one.
C21_AvailabilityCategories ==
    (Applied /\ call.fn = "categorize_availability") =>
        /\ Last.label \in DOMAIN AvailabilityBuckets
        /\ call.number >= 0 =>
              /\ Cardinality({b \in DOMAIN AvailabilityBuckets :
                                 call.number \in AvailabilityBuckets[b]}) = 1
              /\ call.number \in AvailabilityBuckets[Last.label]
        /\ call.number = 30 => Last.label = "occasionally_available"
        /\ call.number = 180 => Last.label = "mostly_available"
        /\ call.number = 300 => Last.label = "highly_available"

\* categorize_availability(180) has returned mostly_available
C21_Witness ==
    /\ Applied
    /\ call.fn = "categorize_availability"
    /\ call.number = 180
    /\ Last.label = "mostly_available"

\* the label the stated rule gives a host: the flag first, then the limits of
\* the response rate (in 1/Scale units)
StatedHostCategory(flag, rate) ==
    CASE flag = 1 -> "superhost"
      [] flag # 1 /\ rate >= 90 * Scale -> "responsive"
      [] flag # 1 /\ 50 * Scale <= rate /\ rate < 90 * Scale -> "moderate"
      [] flag # 1 /\ rate < 50 * Scale -> "low_response"

\* C22: categorize_host returns superhost whenever the superhost flag is set,
\* whatever the response rate; otherwise responsive for a rate of 90 or more,
\* moderate from 50 to below 90, and low_response below 50, which is where the
\* 0.0 that clean_percentage makes of '' and "N/A" falls; the host_category of
\* every accepted record follows the same rule on the record's own fields.
C22_HostCategories ==
    /\ (Applied /\ call.fn = "categorize_host") =>
          /\ Last.label = StatedHostCategory(call.flag, call.number)
          /\ call.flag = 1 => Last.label = "superhost"
          /\ (call.flag = 0 /\ call.number \in {clean_percentage(<<>>), clean_percentage(NA)})
                => Last.label = "low_response"
    /\ \A i \in 1..Len(cleaned_rows) :
          cleaned_rows[i].host_category
              = StatedHostCategory(cleaned_rows[i].host_is_superhost,
                                   cleaned_rows[i].host_response_rate)

\* categorize_host has returned superhost for a flagged host whose response
\* rate is 0
C22_Witness ==
    /\ Applied
    /\ call.fn = "categorize_host"
    /\ call.flag = 1
    /\ call.number = 0
    /\ Last.label = "superhost"

\* the capital of a small letter
Capital(c) == UpperCase[CHOOSE j \in 1..26 : LowerCase[j] = c]

\* the text holds the word somewhere, each letter small or capital
Holds(text, word) ==
    \E i \in 1..(Len(text) - Len(word) + 1) :
        \A k \in 1..Len(word) :
            text[i + k - 1] = word[k] \/ text[i + k - 1] = Capital(word[k])

\* the words that give Entire: 'apt' in the base and arm64 variants only
EntireWords(v) ==
    {<<"e", "n", "t", "i", "r", "e">>} \cup (IF v = "scale" THEN {} ELSE {<<"a", "p", "t">>})

\* C23: simplify_room_type looks for words in the text without regard to case,
\* in the order Entire, Private, Shared, Other: a text holding "entire" (in the
\* base and arm64 variants also one holding "apt") gives Entire even when it
\* holds "private" or "shared" too; otherwise one holding "private" gives
\* Private; otherwise one holding "shared" gives Shared; every other text, the
\* empty one and None give Other; "Entire home/apt" gives Entire.
C23_RoomTypePrecedence ==
    (Applied /\ call.fn = "simplify_room_type") =>
        /\ Falsy(call.text) => Last.label = "Other"
        /\ ~Falsy(call.text) =>
              IF \E w \in EntireWords(variant) : Holds(call.text, w)
              THEN Last.label = "Entire"
              ELSE IF Holds(call.text, <<"p", "r", "i", "v", "a", "t", "e">>)
              THEN Last.label = "Private"
              ELSE IF Holds(call.text, <<"s", "h", "a", "r", "e", "d">>)
              THEN Last.label = "Shared"
              ELSE Last.label = "Other"
        /\ call.text = BaseRow.room_type => Last.label = "Entire"

\* "Private room in apt" has given Entire in the base variant
C23_Witness ==
    /\ Applied
    /\ call.fn = "simplify_room_type"
    /\ variant = "base"
    /\ call.text = <<"P", "r", "i", "v", "a", "t", "e", " ", "r", "o", "o", "m", " ", "i", "n", " ", "a", "p", "t">>
    /\ Last.label = "Entire"

\* ------------------------------------------------- invocations side by side
\* what an invocation of variant v gives when it runs alone on the object src:
\* the outcome of each row, from which the rows that raise, the records accepted
\* and the records written follow
AloneOutcomes ==
    [v \in Variants |->
        [src \in ConcurrentSources |->
            [i \in 1..Len(src.rows) |-> transform_row(v, src.columns, src.rows[i])]]]

IsAccepted(out) == out.tag = "accepted"

RecordsOf(outs) == [k \in 1..Len(outs) |-> outs[k].record]

AloneErrors(v, src, n) ==
    Cardinality({i \in 1..n : AloneOutcomes[v][src][i].tag = "error"})

AloneAccepted(v, src, n) ==
    RecordsOf(SelectSeq(SubSeq(AloneOutcomes[v][src], 1, n), IsAccepted))

AloneWritten(v, src) ==
    IF v = "arm64"
    THEN assign_sequential_id(sort(AloneAccepted(v, src, Len(src.rows))))
    ELSE AloneAccepted(v, src, Len(src.rows))

AloneCounts(v, src) ==
    [raw_count |-> Len(src.rows),
     clean_count |-> Len(AloneAccepted(v, src, Len(src.rows))),
     removed_count |-> Len(src.rows) - Len(AloneAccepted(v, src, Len(src.rows))),
     error_count |-> AloneErrors(v, src, Len(src.rows))]

\* the locals of the invocation f are what its own object gives, row for row
OwnInputOnly(v, f) ==
    f.pc \in {"transform", "empty", "sort", "put"} =>
        /\ f.raw_rows = f.source.rows
        /\ f.error_count = AloneErrors(v, f.source, f.idx)
        /\ f.cleaned_rows = IF f.pc = "put" THEN AloneWritten(v, f.source)
                            ELSE AloneAccepted(v, f.source, f.idx)
        /\ f.pc # "transform" =>
              \A k \in CountKeys : <<k, AloneCounts(v, f.source)[k]>> \in f.metrics

C24_State ==
    /\ OwnInputOnly(variant, Frame(pc, source, raw_rows, idx, cleaned_rows, error_count,
                                   metrics, log))
    /\ OwnInputOnly(variant, suspended)

\* what an invocation returns and writes is what it gives alone; the locals of
\* the invocation set aside change only by its being taken up again
C24_Step ==
    /\ responses' # responses =>
          /\ Returned(responses, responses')
          /\ \A k \in CountKeys :
                Has(LastResponse(responses').metrics, k) =>
                    Value(LastResponse(responses').metrics, k) = AloneCounts(variant, source)[k]
    /\ sink' # sink =>
          /\ Len(sink') = Len(sink) + 1
          /\ sink'[Len(sink')].body = AloneWritten(variant, source)
    /\ suspended' # suspended =>
          /\ suspended' = Frame(pc, source, raw_rows, idx, cleaned_rows, error_count,
                                metrics, log)
          /\ pc' = suspended.pc
          /\ cleaned_rows' = suspended.cleaned_rows
          /\ error_count' = suspended.error_count

\* C24: two invocations in one process, one after the other or interleaved row
\* by row, share neither the error tally nor the accepted list nor the counts:
\* at every point the locals of each are what its own input gives up to the row
\* it is at, and the counts and records it returns and writes are those it
\* gives when it runs alone on that input.
C24_InvocationsIsolated == []C24_State /\ [][C24_Step]_vars

\* two invocations on different objects are both two rows into their loops: one
\* has counted an error, the other has not
C24_Witness ==
    /\ pc = "transform"
    /\ suspended.pc = "transform"
    /\ source # suspended.source
    /\ idx = 2
    /\ suspended.idx = 2
    /\ error_count = 1
    /\ suspended.error_count = 0
    /\ Len(cleaned_rows) = 1
    /\ Len(suspended.cleaned_rows) = 1

\* ------------------------------------------------- the three variants
\* the rows of the file read that variant v accepts, and those that raise in it
AcceptedRows(v) ==
    {i \in 1..Len(raw_rows) : transform_row(v, source.columns, raw_rows[i]).tag = "accepted"}

ErroredRows(v) ==
    {i \in 1..Len(raw_rows) : transform_row(v, source.columns, raw_rows[i]).tag = "error"}

\* the counts variant v reports for the file read
VariantCounts(v) ==
    [clean_count |-> Cardinality(AcceptedRows(v)),
     removed_count |-> Len(raw_rows) - Cardinality(AcceptedRows(v)),
     error_count |-> Cardinality(ErroredRows(v))]

\* the run has recorded its counts
Counted == pc \in {"empty", "sort", "put"}

\* the run's counts under `keys` are those every variant reports for its file,
\* and every variant accepts the rows it accepted
VariantsAgreeOn(keys) ==
    Counted =>
        \A v \in Variants :
            /\ AcceptedRows(v) = AcceptedRows(variant)
            /\ \A k \in keys : <<k, VariantCounts(v)[k]>> \in metrics

\* C25: the base, scale and arm64 variants accept the same rows of every input
\* and report the same clean_count, removed_count and error_count for it.
C25_VariantsAgree == VariantsAgreeOn({"clean_count", "removed_count", "error_count"})

\* the same without the error count
C25_SameAccepted == VariantsAgreeOn({"clean_count", "removed_count"})

\* a file of three rows, one of them raising, has been counted
C25_Witness ==
    /\ Counted
    /\ raw_rows = <<Row4, Row5, Row6>>
    /\ <<"clean_count", 2>> \in metrics
    /\ <<"error_count", 1>> \in metrics

\* ------------------------------------------------- the error log
\* the numbers (from 0, as enumerate gives them) of the rows processed so far
\* that raised, in input order
ErroredSoFar ==
    SelectSeq([i \in 1..idx |-> i - 1], LAMBDA n : Raises(raw_rows[n + 1]))

\* C26: in a run of the base variant in which E rows have raised, exactly
\* min(E, 5) per-row error messages have been printed, those of the first five
\* rows that raised, in input order, while the error counter is E.
C26_BoundedErrorLog ==
    (variant = "base" /\ pc \in {"transform", "empty", "put"}) =>
        /\ error_count = Len(ErroredSoFar)
        /\ Len(log) = Min(error_count, 5)
        /\ log = SubSeq(ErroredSoFar, 1, Min(Len(ErroredSoFar), 5))

\* seven rows of a file of eight have raised and five messages were printed,
\* the last for the sixth row
C26_Witness ==
    /\ variant = "base"
    /\ pc = "transform"
    /\ idx = 8
    /\ error_count = 7
    /\ log = <<0, 2, 3, 4, 5>>

\* ------------------------------------------------- the tallies
\* b is a with at most one record appended
GrownByAppending(a, b) ==
    /\ Len(b) \in {Len(a), Len(a) + 1}
    /\ SubSeq(b, 1, Len(a)) = a

\* one row has been processed: how much each tally rose
AcceptedRise == Len(cleaned_rows') - Len(cleaned_rows)

RemovedRise == removed_so_far(idx', cleaned_rows') - removed_so_far(idx, cleaned_rows)

ErrorRise == error_count' - error_count

RowProcessed == pc = "transform" /\ idx' = idx + 1

C27_Step ==
    RowProcessed =>
        /\ AcceptedRise >= 0 /\ RemovedRise >= 0 /\ ErrorRise >= 0
        /\ AcceptedRise + RemovedRise + ErrorRise = 1
        /\ GrownByAppending(cleaned_rows, cleaned_rows')

\* C27: during the transformation pass the accept, reject and error tallies
\* never decrease, each row processed raises exactly one of them, by exactly 1,
\* and the accepted list grows by appending only: the list after k rows is a
\* prefix of the list after k + 1 rows.
C27_OneTallyPerRow == [][C27_Step]_vars

\* the same with a row that raises counted in the error tally and in the reject
\* tally, as `raw_count - clean_count` counts it
C27_TalliesGrow ==
    [][RowProcessed =>
        /\ AcceptedRise >= 0 /\ RemovedRise >= 0 /\ ErrorRise >= 0
        /\ AcceptedRise + RemovedRise = 1
        /\ ErrorRise \in {0, 1}
        /\ ErrorRise = 1 => RemovedRise = 1
        /\ GrownByAppending(cleaned_rows, cleaned_rows')]_vars

\* an accepted, a raising and an accepted row have been processed
C27_Witness ==
    /\ pc = "transform"
    /\ raw_rows = <<Row4, Row5, Row6>>
    /\ idx = 3
    /\ Len(cleaned_rows) = 2
    /\ error_count = 1
    /\ removed_so_far(idx, cleaned_rows) = 1

\* ------------------------------------------------- the counts reported
\* the rows of the file read that the run's variant rejects: those it skips
\* with `continue`, without an exception
RejectedRows ==
    {i \in 1..Len(raw_rows) : Outcome(i).tag = "rejected"}

\* C28: at the end of every run the counts reported partition the input:
\* raw_count = clean_count + removed_count + error_count, with removed_count
\* the number of rows rejected by validation and error_count the number of rows
\* that raised.
C28_CountsPartition ==
    Counted =>
        /\ Value(metrics, "raw_count")
              = Value(metrics, "clean_count") + Value(metrics, "removed_count")
                + Value(metrics, "error_count")
        /\ Value(metrics, "removed_count") = Cardinality(RejectedRows)
        /\ Value(metrics, "error_count") = Cardinality(ErroredRows(variant))

\* what the counts are: removed_count is every row not accepted, the rows that
\* raised among them
C28_RemovedIncludesErrors ==
    Counted =>
        /\ Value(metrics, "raw_count") = Len(raw_rows)
        /\ Value(metrics, "clean_count") = Cardinality(AcceptedRows(variant))
        /\ Value(metrics, "raw_count")
              = Value(metrics, "clean_count") + Value(metrics, "removed_count")
        /\ Value(metrics, "removed_count")
              = Cardinality(RejectedRows) + Cardinality(ErroredRows(variant))
        /\ Value(metrics, "error_count") = Cardinality(ErroredRows(variant))

\* a file of an accepted, a raising and an accepted row has been counted
C28_Witness ==
    /\ Counted
    /\ raw_rows = <<Row4, Row5, Row6>>
    /\ <<"removed_count", 1>> \in metrics
    /\ <<"error_count", 1>> \in metrics

\* ------------------------------------------------------------------- C29
Returns == Len(responses') = Len(responses) + 1

\* the read or the write itself failed
FailedIO == LastResponse(responses').error \in {"read failed", "write failed"}

NoRecordsTexts == {"No valid records", "No valid records after cleaning"}

\* a write is one object, made from every row of the file, by the step that
\* returns, and only from a non-empty list
C29_Write ==
    sink' # sink =>
        /\ Len(sink') = Len(sink) + 1
        /\ Returns
        /\ idx = Len(raw_rows)
        /\ cleaned_rows # <<>>
        /\ sink'[Len(sink')].body = cleaned_rows

\* an invocation that accepted nothing writes nothing, computes no statistic
\* and returns the error
C29_Empty ==
    (Returns /\ ~FailedIO /\ cleaned_rows = <<>>) =>
        /\ sink' = sink
        /\ LastResponse(responses').error \in NoRecordsTexts
        /\ ~Has(LastResponse(responses').metrics, "data_quality")

\* a statistic is computed over at least one record
C29_Averaged ==
    \A k \in 1..Len(responses) :
        Has(responses[k].metrics, "data_quality") =>
            Value(responses[k].metrics, "data_quality").averaged_over > 0

C29_Step ==
    /\ C29_Write
    /\ C29_Empty
    /\ (Returns /\ ~FailedIO /\ cleaned_rows # <<>>) => sink' # sink

\* C29: the handler writes to the sink exactly when at least one row was
\* accepted (failures of the read and of the write themselves aside): with no
\* accepted row it writes nothing, computes no statistic and returns the error
\* "No valid records"; with accepted rows it writes exactly one object, after
\* every row has been processed
C29_WritesIffAccepted == []C29_Averaged /\ [][C29_Step]_vars

\* what holds in all three variants: the same, except that an invocation with
\* accepted rows may also return the error of the sort key and write nothing
C29_WritesOnlyIfAccepted ==
    [][/\ C29_Write
       /\ C29_Empty
       /\ (Returns /\ ~FailedIO /\ cleaned_rows # <<>>) =>
              \/ sink' # sink
              \/ variant = "arm64" /\ LastResponse(responses').error = "invalid literal for int()"]_vars

\* an invocation of the arm64 handler has returned an error with nothing
\* written, and another has returned that there were no records
C29_Witness ==
    /\ \E k \in 1..Len(responses) : responses[k].error = "invalid literal for int()"
    /\ sink = <<>>

\* ------------------------------------------------------------------- C30
\* scale_csv_data has been applied to the file `source`
Scaled == pc = "return" /\ call.fn = "scale_csv_data"

\* the ids of the rows are pairwise distinct
DistinctIds(rows) ==
    \A i, j \in 1..Len(rows) : i # j => rows[i].id # rows[j].id

\* the output has m * N rows, and that count is returned
C30_Count ==
    /\ result[1].label = ""
    /\ Len(result[1].rows) = call.number * Len(source.rows)
    /\ result[1].number = call.number * Len(source.rows)

\* the first N rows of the output are the rows of the input
C30_FirstCopy ==
    call.number >= 1 =>
        SubSeq(result[1].rows, 1, Len(source.rows)) = source.rows

\* distinct ids stay distinct
C30_Ids == DistinctIds(source.rows) => DistinctIds(result[1].rows)

\* C30: scale_csv_data with multiplier m on N rows gives m * N rows, the first N
\* of them the original rows, and pairwise distinct ids when the original ids
\* are pairwise distinct
C30_ScaledRows == Scaled => (C30_Count /\ C30_FirstCopy /\ C30_Ids)

\* an id the utility moves without changing copy 0: a positive decimal number
\* written without sign, blanks or zeros in front
PlainId(id) ==
    /\ id # None
    /\ isdigit(id)
    /\ int(id).ok
    /\ int(id).v > 0
    /\ str_int(int(id).v) = id

PlainFile(rows) ==
    \A i \in 1..Len(rows) : PlainId(rows[i].id) /\ ~Overlong(rows[i])

\* what holds: the claim on files whose ids are all plain; on any file without
\* an overlong row the count is m * N, and a row whose id is not a decimal
\* number is the same in every copy
C30_PlainFilesScale ==
    Scaled =>
        /\ PlainFile(source.rows) => (C30_Count /\ C30_FirstCopy /\ C30_Ids)
        /\ (\A i \in 1..Len(source.rows) : ~Overlong(source.rows[i])) => C30_Count
        /\ \A k \in 1..Len(result[1].rows) :
               LET row == source.rows[((k - 1) % Len(source.rows)) + 1]
               IN  (row.id = None \/ ~isdigit(strip(row.id))) => result[1].rows[k] = row

\* two plain rows with distinct ids have been scaled to three copies
C30_Witness ==
    /\ Scaled
    /\ PlainFile(source.rows)
    /\ Len(source.rows) = 2
    /\ DistinctIds(source.rows)
    /\ call.number = 3
    /\ Len(result[1].rows) = 6
====
